---- MODULE Spec2Model ----
(***************************************************************************)
(* Queue operation engine of the distributed message queue: the handlers   *)
(* of QueuesService (internal API) and ApiService (simple /api), run by    *)
(* several stateless instances against one shared Redis store.             *)
(*                                                                         *)
(* Every `await redis.<cmd>` of a handler is one atomic step at the store; *)
(* the steps of concurrent calls interleave freely.  The code before the   *)
(* first await of a handler runs together with that first command.  The    *)
(* commands of getClient() never wait for each other, so only a dequeue    *)
(* records the instance it runs on: its BRPOP shares the instance's        *)
(* blockingClient connection with the other dequeues of that instance.     *)
(***************************************************************************)
EXTENDS Integers, Sequences, FiniteSets, TLC

\* ------------------------------------------------------------------ bounds
MaxActive == 2      \* calls in flight at the same time
MaxBatch == 2       \* payloads of one bulk enqueue
MaxClock == 1       \* ticks of the wall clock

\* -------------------------------------------------------- program constants
MaxTimeoutMs == 60000
MsPerSecond == 1000
MaxPeekCount == 100
MaxNameLength == 64

\* ------------------------------------------------------------------ inputs
Queues == {"orders", "jobs"}
\* further names a request can carry: two the pattern admits, and names it
\* does not admit (empty, too long, a blank, a colon, a dot, a line break)
EdgeNames == {"x64", "A_b-9"}
InvalidNames == {"", "x65", "a b", "a:metadata", "a.b", "ab+newline"}
\* a valid name that begins like the suffix of the metadata keys
TrapNames == {"metadata"}
Names == Queues \cup EdgeNames \cup InvalidNames \cup TrapNames
\* what is left of the statistics keys of such a queue when 'queue:' is
\* taken off
StatsKeyNames == {"metadata:stats:enqueued", "metadata:stats:dequeued"}
Instances == {1, 2}
Payloads == {[text |-> "A"], [text |-> "B"], [text |-> "C"]}
Timeouts == {500, 1000, 60001}
Counts == {1, 10}
CallIds == 1..MaxActive

VARIABLES
  list,       \* queue:{name}                 Redis list, index 1 = head (left)
  metadata,   \* queue:{name}:metadata        JSON text, or Nil
  enqueued,   \* queue:{name}:stats:enqueued  counter, or NoKey
  dequeued,   \* queue:{name}:stats:dequeued  counter, or NoKey
  waiters,    \* per list key: calls blocked in BRPOP at the store, oldest first
  bq,         \* per instance: BRPOP commands outstanding on blockingClient
  calls,      \* per request slot: handler, arguments, position, locals, result
  clock,      \* wall clock read by new Date()
  nextId,     \* number of message ids generated so far
  nextSeq,    \* history: number of elements appended to any list so far
  popped,     \* history: per queue, the elements BRPOP removed, in that order
  delivered,  \* history: append numbers of the elements dequeue calls returned
  redelivered,\* history: those returned more than once
  started     \* history: number of calls started so far

vars == <<list, metadata, enqueued, dequeued, waiters, bq, calls, clock,
          nextId, nextSeq, popped, delivered, redelivered, started>>

\* ------------------------------------------------------------------ values
NoKey == -1
Nil == [nil |-> TRUE]
Pending == [kind |-> "pending"]

\* body.name of a request body that has no name: undefined
NoName == "(undefined)"

\* the characters of a name; of undefined, those of String(undefined), the
\* text that RegExp.prototype.test matches against
Chars(name) ==
  CASE name = "orders" -> <<"o", "r", "d", "e", "r", "s">>
    [] name = "jobs" -> <<"j", "o", "b", "s">>
    [] name = "x64" -> [j \in 1..MaxNameLength |-> "x"]
    [] name = "A_b-9" -> <<"A", "_", "b", "-", "9">>
    [] name = "" -> <<>>
    [] name = "x65" -> [j \in 1..(MaxNameLength + 1) |-> "x"]
    [] name = "a" -> <<"a">>
    [] name = "a b" -> <<"a", " ", "b">>
    [] name = "a:metadata" ->
         <<"a", ":", "m", "e", "t", "a", "d", "a", "t", "a">>
    [] name = "a.b" -> <<"a", ".", "b">>
    [] name = "ab+newline" -> <<"a", "b", "\n">>
    [] name = NoName -> <<"u", "n", "d", "e", "f", "i", "n", "e", "d">>
    [] name = "metadata" -> <<"m", "e", "t", "a", "d", "a", "t", "a">>
    [] name = "metadata:stats:enqueued" ->
         <<"m", "e", "t", "a", "d", "a", "t", "a", ":", "s", "t", "a", "t",
           "s", ":", "e", "n", "q", "u", "e", "u", "e", "d">>
    [] name = "metadata:stats:dequeued" ->
         <<"m", "e", "t", "a", "d", "a", "t", "a", ":", "s", "t", "a", "t",
           "s", ":", "d", "e", "q", "u", "e", "u", "e", "d">>

\* [a-zA-Z0-9_-]
Lower ==
  {"a", "b", "c", "d", "e", "f", "g", "h", "i", "j", "k", "l", "m",
   "n", "o", "p", "q", "r", "s", "t", "u", "v", "w", "x", "y", "z"}
Upper ==
  {"A", "B", "C", "D", "E", "F", "G", "H", "I", "J", "K", "L", "M",
   "N", "O", "P", "Q", "R", "S", "T", "U", "V", "W", "X", "Y", "Z"}
Digits == {"0", "1", "2", "3", "4", "5", "6", "7", "8", "9"}
NameChars == Lower \cup Upper \cup Digits \cup {"_", "-"}

\* /^[a-zA-Z0-9_-]+$/.test(name) && name.length <= 64 && name.length > 0
validateQueueNameAnyChar(name) ==
  /\ Len(Chars(name)) <= MaxNameLength
  /\ Len(Chars(name)) > 0
validateQueueName(name) ==
  /\ Len(Chars(name)) >= 1
  /\ \A j \in 1..Len(Chars(name)) : Chars(name)[j] \in NameChars
  /\ Len(Chars(name)) <= MaxNameLength
  /\ Len(Chars(name)) > 0

\* msg_ + 8 random bytes: a fresh id per call
generateMessageId(n) == n + 1

\* JSON text of a value, and the value of a JSON text
JSONstringify(v) == [json |-> v]
JSONparse(s) == s.json

\* const message = { id, payload: dto.message, enqueuedAt: new Date() }
EnvelopeOfBody(id, payload, now) ==
  [id |-> id, payload |-> [message |-> payload], enqueuedAt |-> now]
Envelope(id, payload, now) ==
  [id |-> id, payload |-> payload, enqueuedAt |-> now]

\* message.dequeuedAt = new Date()
SetDequeuedAt(m, now) ==
  [x \in DOMAIN m \cup {"dequeuedAt"} |->
     IF x = "dequeuedAt" THEN now ELSE m[x]]

\* { createdAt, name }
Metadata(q, now) == [createdAt |-> now, name |-> q]

\* Math.floor(timeoutMs / 1000)
TimeoutSeconds(timeoutMs) == timeoutMs \div MsPerSecond

Min(a, b) == IF a < b THEN a ELSE b
Reverse(sq) == [j \in 1..Len(sq) |-> sq[Len(sq) + 1 - j]]

\* --------------------------------------------------------- request slots
IdleCall ==
  [op |-> "none", n |-> 0, q |-> "orders", inst |-> 1, pc |-> "idle",
   arg |-> <<>>, msgs |-> <<>>, ids |-> <<>>, timeoutMs |-> 0,
   reply |-> Nil, waited |-> FALSE, count |-> 0, depth |-> 0,
   metadataExists |-> FALSE, oldest |-> Nil, newest |-> Nil,
   totalEnqueued |-> 0, applied |-> 0, counted |-> FALSE, removed |-> 0,
   deleted |-> {}, failed |-> FALSE, names |-> <<>>, kinds |-> <<>>,
   k |-> 0, items |-> <<>>, res |-> Pending]

Slots == DOMAIN calls

\* a slot is free before its first call and after a call returned; a new
\* call takes the lowest free slot
Active(c) == calls[c].pc \notin {"idle", "done"}
CanStart(c) == ~Active(c) /\ \A d \in 1..(c - 1) : Active(d)
NewCall == [IdleCall EXCEPT !.n = started + 1]

\* the record of a call that returned: its result, and what the properties
\* below read of its course; the locals of the handler are gone
Return(r, res) ==
  [IdleCall EXCEPT !.op = r.op, !.n = r.n, !.q = r.q, !.arg = r.arg,
                   !.timeoutMs = r.timeoutMs, !.reply = r.reply,
                   !.waited = r.waited, !.count = r.count,
                   !.depth = r.depth,
                   !.applied = r.applied, !.counted = r.counted,
                   !.removed = r.removed, !.deleted = r.deleted,
                   !.failed = r.failed, !.pc = "done", !.res = res]

\* ------------------------------------------------------- store primitives
\* LPUSH: the value becomes the new head of the list
LPUSHAtTail(l, el) == l \o <<el>>
LPUSH(l, el) == <<el>> \o l
\* BRPOP: the element returned, and the list left behind
TailElement(l) == l[Len(l)]
RemoveTailKeeps(l) == l
RemoveTail(l) == SubSeq(l, 1, Len(l) - 1)
\* BRPOP on an empty list: the client joins the key's blocked clients
RegisterWaiter(w, c) == Append(w, c)
INCRBYLost(v, n) == IF v = NoKey THEN n ELSE v
INCRBYDown(v, n) == IF v = NoKey THEN n ELSE v - n
INCRBY(v, n) == IF v = NoKey THEN n ELSE v + n
GET(v) == IF v = NoKey THEN 0 ELSE v
LLEN(l) == Len(l)
\* EXISTS on a list key: Redis keeps no empty list
EXISTS(l) == Len(l) > 0
\* LRANGE key start stop, with zero-based and negative indices
LRANGE(l, start, stop) ==
  LET n == Len(l)
      s == IF start < 0 THEN (IF n + start < 0 THEN 0 ELSE n + start) ELSE start
      e == IF stop < 0 THEN n + stop ELSE (IF stop > n - 1 THEN n - 1 ELSE stop)
  IN IF s > e THEN <<>> ELSE SubSeq(l, s + 1, e + 1)
LINDEX(l, j) ==
  IF l = <<>> THEN Nil ELSE IF j < 0 THEN l[Len(l) + 1 + j] ELSE l[j + 1]

\* a list element: the JSON text, and as history its append number, the call
\* that appended it, its position in that call's batch, and the payload and
\* the id of that call (id 0: the simple API generates none)
Element(cs, c, j, str) ==
  [seq |-> nextSeq + 1, by |-> cs[c].n, idx |-> j, p |-> cs[c].arg[j],
   id |-> IF cs[c].ids = <<>> THEN 0 ELSE cs[c].ids[j], str |-> str]
Trace(el) == [seq |-> el.seq, by |-> el.by, idx |-> el.idx, p |-> el.p]

\* `LPUSH queue:q str` by call c: a client blocked on the key is served at
\* once, otherwise the list grows at its head.  cs is calls as c leaves it.
Push(cs, q, c, j, str) ==
  /\ nextSeq' = nextSeq + 1
  /\ IF waiters[q] = <<>>
       THEN /\ list' = [list EXCEPT ![q] = LPUSH(@, Element(cs, c, j, str))]
            /\ calls' = cs
            /\ UNCHANGED <<waiters, bq, popped>>
       ELSE /\ waiters' = [waiters EXCEPT ![q] = Tail(@)]
            /\ bq' = [bq EXCEPT ![cs[Head(waiters[q])].inst] = Tail(@)]
            /\ popped' = [popped EXCEPT ![q] =
                            Append(@, Trace(Element(cs, c, j, str)))]
            /\ calls' = [cs EXCEPT
                 ![Head(waiters[q])].reply = Element(cs, c, j, str),
                 ![Head(waiters[q])].pc = "reply"]
            /\ UNCHANGED list

\* ------------------------------------------------------------------ Init
\* nothing is stored, and no request is in flight in any of the slots
InitWith(ids) ==
  /\ list = [q \in Names |-> <<>>]
  /\ metadata = [q \in Names |-> Nil]
  /\ enqueued = [q \in Names |-> NoKey]
  /\ dequeued = [q \in Names |-> NoKey]
  /\ waiters = [q \in Names |-> <<>>]
  /\ bq = [i \in Instances |-> <<>>]
  /\ calls = [c \in ids |-> IdleCall]
  /\ clock = 0
  /\ nextId = 0
  /\ nextSeq = 0
  /\ popped = [q \in Names |-> <<>>]
  /\ delivered = {}
  /\ redelivered = {}
  /\ started = 0

Init == InitWith(CallIds)

Tick ==
  /\ clock < MaxClock
  /\ clock' = clock + 1
  /\ UNCHANGED <<list, metadata, enqueued, dequeued, waiters, bq, calls,
                 nextId, nextSeq, popped, delivered, redelivered, started>>

\* ---------------------------------------------------- ApiService.enqueue
\* validation and LPUSH of the raw body
ApiEnqueueLpush(c, q, p) ==
  /\ CanStart(c)
  /\ validateQueueName(q)
  /\ Push([calls EXCEPT ![c] =
             [NewCall EXCEPT !.op = "enqueue", !.q = q, !.arg = <<p>>,
                             !.pc = "incr"]],
          q, c, 1, JSONstringify(p))
  /\ started' = started + 1
  /\ UNCHANGED <<metadata, enqueued, dequeued, clock, nextId, delivered, redelivered>>

ApiEnqueueIncr(c) ==
  /\ calls[c].op = "enqueue" /\ calls[c].pc = "incr"
  /\ enqueued' = [enqueued EXCEPT ![calls[c].q] = INCRBY(@, 1)]
  /\ calls' = [calls EXCEPT ![c] = Return(@,
        [kind |-> "ok", success |-> TRUE, queue |-> calls[c].q,
         timestamp |-> clock])]
  /\ UNCHANGED <<list, metadata, dequeued, waiters, bq, clock, nextId,
                 nextSeq, popped, delivered, redelivered, started>>

\* ------------------------------------------ QueuesService.enqueueMessage
\* validation, id, envelope, and EXISTS queue:q:metadata
EnqueueMessageExists(c, q, p) ==
  /\ CanStart(c)
  /\ validateQueueName(q)
  /\ nextId' = nextId + 1
  /\ calls' = [calls EXCEPT ![c] =
       [NewCall EXCEPT !.op = "enqueueMessage", !.q = q, !.arg = <<p>>,
          !.ids = <<generateMessageId(nextId)>>,
          !.msgs = <<JSONstringify(
                       Envelope(generateMessageId(nextId), p, clock))>>,
          !.metadataExists = (metadata[q] # Nil),
          !.pc = IF metadata[q] # Nil THEN "lpush" ELSE "set"]]
  /\ started' = started + 1
  /\ UNCHANGED <<list, metadata, enqueued, dequeued, waiters, bq, clock,
                 nextSeq, popped, delivered, redelivered>>

EnqueueMessageSet(c) ==
  /\ calls[c].op = "enqueueMessage" /\ calls[c].pc = "set"
  /\ metadata' = [metadata EXCEPT ![calls[c].q] =
                    JSONstringify(Metadata(calls[c].q, clock))]
  /\ calls' = [calls EXCEPT ![c].pc = "lpush"]
  /\ UNCHANGED <<list, enqueued, dequeued, waiters, bq, clock, nextId,
                 nextSeq, popped, delivered, redelivered, started>>

EnqueueMessageLpush(c) ==
  /\ calls[c].op = "enqueueMessage" /\ calls[c].pc = "lpush"
  /\ Push([calls EXCEPT ![c].pc = "incr"], calls[c].q, c, 1,
          calls[c].msgs[1])
  /\ UNCHANGED <<metadata, enqueued, dequeued, clock, nextId, delivered, redelivered,
                 started>>

\* The store executes the LPUSH and the connection is lost before the reply
\* arrives.  The client is created without autoResendUnfulfilledCommands:
\* false and with a retryStrategy that reconnects, so ioredis keeps the
\* unanswered command and writes it again once it is connected: the LPUSH
\* is still to be executed
EnqueueMessageLpushUnanswered(c) ==
  /\ calls[c].op = "enqueueMessage" /\ calls[c].pc = "lpush"
  /\ calls[c].applied = 0
  /\ Push([calls EXCEPT ![c].applied = 1], calls[c].q, c, 1,
          calls[c].msgs[1])
  /\ UNCHANGED <<metadata, enqueued, dequeued, clock, nextId, delivered,
                 redelivered, started>>

EnqueueMessageIncr(c) ==
  /\ calls[c].op = "enqueueMessage" /\ calls[c].pc = "incr"
  /\ enqueued' = [enqueued EXCEPT ![calls[c].q] = INCRBY(@, 1)]
  /\ calls' = [calls EXCEPT ![c] = Return(@,
        [kind |-> "ok", success |-> TRUE, queue |-> calls[c].q,
         messageId |-> calls[c].ids[1],
         timestamp |-> JSONparse(calls[c].msgs[1]).enqueuedAt])]
  /\ UNCHANGED <<list, metadata, dequeued, waiters, bq, clock, nextId,
                 nextSeq, popped, delivered, redelivered, started>>

\* ------------------------- ApiService.dequeue, QueuesService.dequeueMessage
DequeueOps == {"dequeue", "dequeueMessage"}

\* if (timeoutMs > 60000)
TimeoutAtCeilingTooLarge(timeoutMs) == timeoutMs >= MaxTimeoutMs
TimeoutTooLarge(timeoutMs) == timeoutMs > MaxTimeoutMs

\* validation, the timeout ceiling, and the BRPOP written to blockingClient
DequeueStart(c, i, q, op, timeoutMs) ==
  /\ CanStart(c)
  /\ validateQueueName(q)
  /\ op \in DequeueOps
  /\ IF TimeoutTooLarge(timeoutMs)
       THEN /\ calls' = [calls EXCEPT ![c] = Return(
                 [NewCall EXCEPT !.op = op, !.q = q, !.timeoutMs = timeoutMs],
                 [kind |-> "error", status |-> 400,
                  message |-> "Timeout exceeds maximum (60s)"])]
            /\ UNCHANGED bq
       ELSE /\ calls' = [calls EXCEPT ![c] =
                 [NewCall EXCEPT !.op = op, !.q = q, !.inst = i,
                    !.timeoutMs = timeoutMs, !.pc = "brpop"]]
            /\ bq' = [bq EXCEPT ![i] = Append(@, c)]
  /\ started' = started + 1
  /\ UNCHANGED <<list, metadata, enqueued, dequeued, waiters, clock, nextId,
                 nextSeq, popped, delivered, redelivered>>

\* the store executes the BRPOP at the head of the instance's blocking
\* connection: it pops the tail, or blocks the connection on the key
BrpopExec(c) ==
  /\ calls[c].pc = "brpop"
  /\ bq[calls[c].inst] # <<>> /\ Head(bq[calls[c].inst]) = c
  /\ LET q == calls[c].q IN
     IF list[q] # <<>>
       THEN /\ list' = [list EXCEPT ![q] = RemoveTail(@)]
            /\ popped' = [popped EXCEPT ![q] =
                            Append(@, Trace(TailElement(list[q])))]
            /\ calls' = [calls EXCEPT ![c].reply = TailElement(list[q]),
                                      ![c].pc = "reply"]
            /\ bq' = [bq EXCEPT ![calls[c].inst] = Tail(@)]
            /\ UNCHANGED waiters
       ELSE /\ waiters' = [waiters EXCEPT ![q] = RegisterWaiter(@, c)]
            /\ calls' = [calls EXCEPT ![c].pc = "blocked",
                                      ![c].waited = TRUE]
            /\ UNCHANGED <<list, popped, bq>>
  /\ UNCHANGED <<metadata, enqueued, dequeued, clock, nextId, nextSeq,
                 delivered, redelivered, started>>

\* the store ends a blocked BRPOP after timeoutSeconds with a nil reply;
\* BRPOP with a timeout of 0 blocks without limit
BrpopTimeout(c) ==
  /\ calls[c].pc = "blocked"
  /\ TimeoutSeconds(calls[c].timeoutMs) > 0
  /\ waiters' = [waiters EXCEPT ![calls[c].q] =
                   SelectSeq(@, LAMBDA w : w # c)]
  /\ bq' = [bq EXCEPT ![calls[c].inst] = SelectSeq(@, LAMBDA w : w # c)]
  /\ calls' = [calls EXCEPT ![c].pc = "reply"]
  /\ UNCHANGED <<list, metadata, enqueued, dequeued, clock, nextId, nextSeq,
                 popped, delivered, redelivered, started>>

\* ApiService.dequeue after the await: parse, count, return the parsed text;
\* ApiController.dequeue answers null with res.status(NO_CONTENT).send()
ApiDequeueReturn(c) ==
  /\ calls[c].op = "dequeue" /\ calls[c].pc = "reply"
  /\ IF calls[c].reply # Nil
       THEN /\ dequeued' = [dequeued EXCEPT ![calls[c].q] = INCRBY(@, 1)]
            /\ delivered' = delivered \cup {calls[c].reply.seq}
            /\ redelivered' = redelivered \cup
                 (delivered \cap {calls[c].reply.seq})
            /\ calls' = [calls EXCEPT ![c] = Return(@,
                  [kind |-> "ok", status |-> 200,
                   body |-> JSONparse(calls[c].reply.str)])]
       ELSE /\ calls' = [calls EXCEPT ![c] = Return(@,
                  [kind |-> "null", status |-> 204])]
            /\ UNCHANGED <<dequeued, delivered, redelivered>>
  /\ UNCHANGED <<list, metadata, enqueued, waiters, bq, clock, nextId,
                 nextSeq, popped, started>>

\* QueuesService.dequeueMessage after the await: parse, stamp dequeuedAt,
\* count, return the envelope; without a reply it returns null, which
\* QueuesController.dequeueMessage returns as it is: the handler sets no
\* status and writes no response itself, so the answer is that of a GET
\* handler that returned nothing, 200 without a body
DequeueMessageReturn(c) ==
  /\ calls[c].op = "dequeueMessage" /\ calls[c].pc = "reply"
  /\ IF calls[c].reply # Nil
       THEN /\ dequeued' = [dequeued EXCEPT ![calls[c].q] = INCRBY(@, 1)]
            /\ delivered' = delivered \cup {calls[c].reply.seq}
            /\ redelivered' = redelivered \cup
                 (delivered \cap {calls[c].reply.seq})
            /\ calls' = [calls EXCEPT ![c] = Return(@,
                  [kind |-> "ok", status |-> 200,
                   body |-> SetDequeuedAt(JSONparse(calls[c].reply.str),
                                          clock)])]
       ELSE /\ calls' = [calls EXCEPT ![c] = Return(@,
                  [kind |-> "null", status |-> 200])]
            /\ UNCHANGED <<dequeued, delivered, redelivered>>
  /\ UNCHANGED <<list, metadata, enqueued, waiters, bq, clock, nextId,
                 nextSeq, popped, started>>

\* --------------------------------------------- QueuesService.bulkEnqueue
Batches == UNION {[1..n -> Payloads] : n \in 1..MaxBatch}
BatchIds(n, len) == [j \in 1..len |-> generateMessageId(n + j - 1)]
\* dto.messages.map(...): one envelope per payload, in input order
BatchMessages(ps, n, now) ==
  [j \in 1..Len(ps) |->
     JSONstringify(Envelope(BatchIds(n, Len(ps))[j], ps[j], now))]
\* messages.forEach(msg => pipeline.lpush(...)): the j-th command queued
PipelineCommandReversed(msgs, j) == Len(msgs) + 1 - j
PipelineCommand(msgs, j) == j

\* validation, the envelopes, the pipeline is built and written
BulkEnqueueStart(c, q, ps) ==
  /\ CanStart(c)
  /\ validateQueueName(q)
  /\ nextId' = nextId + Len(ps)
  /\ calls' = [calls EXCEPT ![c] =
       [NewCall EXCEPT !.op = "bulkEnqueue", !.q = q, !.arg = ps,
          !.ids = BatchIds(nextId, Len(ps)),
          !.msgs = BatchMessages(ps, nextId, clock), !.pc = "pipeline"]]
  /\ started' = started + 1
  /\ UNCHANGED <<list, metadata, enqueued, dequeued, waiters, bq, clock,
                 nextSeq, popped, delivered, redelivered>>

\* the store executes the next LPUSH of the pipeline
BulkEnqueueLpush(c) ==
  /\ calls[c].op = "bulkEnqueue" /\ calls[c].pc = "pipeline"
  /\ calls[c].applied < Len(calls[c].msgs)
  /\ LET j == PipelineCommand(calls[c].msgs, calls[c].applied + 1) IN
       Push([calls EXCEPT ![c].applied = @ + 1], calls[c].q, c, j,
            calls[c].msgs[j])
  /\ UNCHANGED <<metadata, enqueued, dequeued, clock, nextId, delivered, redelivered,
                 started>>

BulkResult(c) ==
  [kind |-> "ok", success |-> TRUE, queue |-> calls[c].q,
   enqueuedCount |-> Len(calls[c].msgs), messageIds |-> calls[c].ids,
   timestamp |-> clock]

\* the store executes the closing INCRBY; exec() resolves
BulkEnqueueIncrby(c) ==
  /\ calls[c].op = "bulkEnqueue" /\ calls[c].pc = "pipeline"
  /\ calls[c].applied = Len(calls[c].msgs)
  /\ enqueued' = [enqueued EXCEPT ![calls[c].q] =
                    INCRBY(@, Len(calls[c].msgs))]
  /\ calls' = [calls EXCEPT ![c] =
                 Return([@ EXCEPT !.counted = TRUE], BulkResult(c))]
  /\ UNCHANGED <<list, metadata, dequeued, waiters, bq, clock, nextId,
                 nextSeq, popped, delivered, redelivered, started>>

\* the store fails while the pipeline is in flight: each command not yet
\* executed gets an error reply; exec() collects the replies and resolves,
\* and the handler does not look at them
BulkEnqueueStoreFails(c) ==
  /\ calls[c].op = "bulkEnqueue" /\ calls[c].pc = "pipeline"
  /\ calls' = [calls EXCEPT ![c] =
                 Return([@ EXCEPT !.failed = TRUE], BulkResult(c))]
  /\ UNCHANGED <<list, metadata, enqueued, dequeued, waiters, bq, clock,
                 nextId, nextSeq, popped, delivered, redelivered, started>>

\* -------------------------------------------- QueuesService.peekMessages
\* validation, Math.min(count, 100), and LRANGE -messageCount -1
PeekMessagesLrange(c, q, count) ==
  /\ CanStart(c)
  /\ validateQueueName(q)
  /\ calls' = [calls EXCEPT ![c] =
       [NewCall EXCEPT !.op = "peekMessages", !.q = q, !.count = count,
          !.msgs = LRANGE(list[q], -Min(count, MaxPeekCount), -1),
          !.pc = "llen"]]
  /\ started' = started + 1
  /\ UNCHANGED <<list, metadata, enqueued, dequeued, waiters, bq, clock,
                 nextId, nextSeq, popped, delivered, redelivered>>

\* .map((msg) => JSON.parse(msg))
PeekedMessageStamped(str) == SetDequeuedAt(JSONparse(str), 0)
PeekedMessage(str) == JSONparse(str)

\* LLEN, and the response: the range reversed and parsed
PeekMessagesLlenBehindBrpop(c) ==
  /\ calls[c].op = "peekMessages" /\ calls[c].pc = "llen"
  /\ \A i \in Instances : bq[i] = <<>>
  /\ calls' = [calls EXCEPT ![c] = Return(
        [@ EXCEPT !.depth = LLEN(list[calls[c].q])],
        [kind |-> "ok", queue |-> calls[c].q,
         messages |-> [j \in 1..Len(calls[c].msgs) |->
                         PeekedMessage(Reverse(calls[c].msgs)[j].str)],
         count |-> Len(calls[c].msgs),
         totalDepth |-> LLEN(list[calls[c].q])])]
  /\ UNCHANGED <<list, metadata, enqueued, dequeued, waiters, bq, clock,
                 nextId, nextSeq, popped, delivered, redelivered, started>>
PeekMessagesLlen(c) ==
  /\ calls[c].op = "peekMessages" /\ calls[c].pc = "llen"
  /\ calls' = [calls EXCEPT ![c] = Return(
        [@ EXCEPT !.depth = LLEN(list[calls[c].q])],
        [kind |-> "ok", queue |-> calls[c].q,
         messages |-> [j \in 1..Len(calls[c].msgs) |->
                         PeekedMessage(Reverse(calls[c].msgs)[j].str)],
         count |-> Len(calls[c].msgs),
         totalDepth |-> LLEN(list[calls[c].q])])]
  /\ UNCHANGED <<list, metadata, enqueued, dequeued, waiters, bq, clock,
                 nextId, nextSeq, popped, delivered, redelivered, started>>

\* ---------------------------------------------- QueuesService.purgeQueue
PurgeQueueLlen(c, q) ==
  /\ CanStart(c)
  /\ validateQueueName(q)
  /\ calls' = [calls EXCEPT ![c] =
       [NewCall EXCEPT !.op = "purgeQueue", !.q = q,
          !.depth = LLEN(list[q]), !.pc = "del"]]
  /\ started' = started + 1
  /\ UNCHANGED <<list, metadata, enqueued, dequeued, waiters, bq, clock,
                 nextId, nextSeq, popped, delivered, redelivered>>

PurgeQueueDelEverything(c) ==
  /\ calls[c].op = "purgeQueue" /\ calls[c].pc = "del"
  /\ list' = [list EXCEPT ![calls[c].q] = <<>>]
  /\ metadata' = [metadata EXCEPT ![calls[c].q] = Nil]
  /\ enqueued' = [enqueued EXCEPT ![calls[c].q] = NoKey]
  /\ dequeued' = [dequeued EXCEPT ![calls[c].q] = NoKey]
  /\ calls' = [calls EXCEPT ![c] = Return(
        [@ EXCEPT !.removed = Len(list[calls[c].q])],
        [kind |-> "ok", success |-> TRUE, queue |-> calls[c].q,
         purgedMessages |-> calls[c].depth, timestamp |-> clock])]
  /\ UNCHANGED <<waiters, bq, clock, nextId,
                 nextSeq, popped, delivered, redelivered, started>>
PurgeQueueDel(c) ==
  /\ calls[c].op = "purgeQueue" /\ calls[c].pc = "del"
  /\ list' = [list EXCEPT ![calls[c].q] = <<>>]
  /\ calls' = [calls EXCEPT ![c] = Return(
        [@ EXCEPT !.removed = Len(list[calls[c].q])],
        [kind |-> "ok", success |-> TRUE, queue |-> calls[c].q,
         purgedMessages |-> calls[c].depth, timestamp |-> clock])]
  /\ UNCHANGED <<metadata, enqueued, dequeued, waiters, bq, clock, nextId,
                 nextSeq, popped, delivered, redelivered, started>>

\* --------------------------------------------- QueuesService.createQueue
CreateQueueExistsUnchecked(c, q) ==
  /\ CanStart(c)
  /\ validateQueueName(q)
  /\ calls' = [calls EXCEPT ![c] =
       [NewCall EXCEPT !.op = "createQueue", !.q = q, !.pc = "set"]]
  /\ started' = started + 1
  /\ UNCHANGED <<list, metadata, enqueued, dequeued, waiters, bq, clock,
                 nextId, nextSeq, popped, delivered, redelivered>>
CreateQueueExists(c, q) ==
  /\ CanStart(c)
  /\ validateQueueName(q)
  /\ calls' = [calls EXCEPT ![c] =
       IF metadata[q] # Nil
         THEN Return([NewCall EXCEPT !.op = "createQueue", !.q = q],
                     [kind |-> "error", status |-> 400,
                      message |-> "Queue already exists"])
         ELSE [NewCall EXCEPT !.op = "createQueue", !.q = q, !.pc = "set"]]
  /\ started' = started + 1
  /\ UNCHANGED <<list, metadata, enqueued, dequeued, waiters, bq, clock,
                 nextId, nextSeq, popped, delivered, redelivered>>

CreateQueueSet(c) ==
  /\ calls[c].op = "createQueue" /\ calls[c].pc = "set"
  /\ metadata' = [metadata EXCEPT ![calls[c].q] =
                    JSONstringify(Metadata(calls[c].q, clock))]
  /\ calls' = [calls EXCEPT ![c] = Return(@,
        [kind |-> "ok", success |-> TRUE, queue |-> calls[c].q,
         timestamp |-> clock])]
  /\ UNCHANGED <<list, enqueued, dequeued, waiters, bq, clock, nextId,
                 nextSeq, popped, delivered, redelivered, started>>

\* -------------------------------------------- QueuesService.getQueueInfo
NoAge == -1
\* Date.now() - new Date(msg.enqueuedAt).getTime(); null without a message,
\* and a NaN is sent as null
MessageAge(el, now) ==
  IF el = Nil THEN NoAge
  ELSE IF "enqueuedAt" \in DOMAIN JSONparse(el.str)
         THEN now - JSONparse(el.str).enqueuedAt
         ELSE NoAge

GetQueueInfoLlen(c, q) ==
  /\ CanStart(c)
  /\ validateQueueName(q)
  /\ calls' = [calls EXCEPT ![c] =
       [NewCall EXCEPT !.op = "getQueueInfo", !.q = q,
          !.depth = LLEN(list[q]),
          !.pc = IF LLEN(list[q]) = 0 THEN "exists" ELSE "lindexOldest"]]
  /\ started' = started + 1
  /\ UNCHANGED <<list, metadata, enqueued, dequeued, waiters, bq, clock,
                 nextId, nextSeq, popped, delivered, redelivered>>

\* depth === 0 && !(await redis.exists(`queue:${queueName}`))
GetQueueInfoExists(c) ==
  /\ calls[c].op = "getQueueInfo" /\ calls[c].pc = "exists"
  /\ calls' = [calls EXCEPT ![c] =
       IF ~EXISTS(list[calls[c].q])
         THEN Return(@, [kind |-> "error", status |-> 404,
                         message |-> "Queue not found"])
         ELSE [@ EXCEPT !.pc = "getEnqueued"]]
  /\ UNCHANGED <<list, metadata, enqueued, dequeued, waiters, bq, clock,
                 nextId, nextSeq, popped, delivered, redelivered, started>>

GetQueueInfoLindexOldest(c) ==
  /\ calls[c].op = "getQueueInfo" /\ calls[c].pc = "lindexOldest"
  /\ calls' = [calls EXCEPT ![c].oldest = LINDEX(list[calls[c].q], -1),
                            ![c].pc = "lindexNewest"]
  /\ UNCHANGED <<list, metadata, enqueued, dequeued, waiters, bq, clock,
                 nextId, nextSeq, popped, delivered, redelivered, started>>

GetQueueInfoLindexNewest(c) ==
  /\ calls[c].op = "getQueueInfo" /\ calls[c].pc = "lindexNewest"
  /\ calls' = [calls EXCEPT ![c].newest = LINDEX(list[calls[c].q], 0),
                            ![c].pc = "getEnqueued"]
  /\ UNCHANGED <<list, metadata, enqueued, dequeued, waiters, bq, clock,
                 nextId, nextSeq, popped, delivered, redelivered, started>>

GetQueueInfoGetEnqueued(c) ==
  /\ calls[c].op = "getQueueInfo" /\ calls[c].pc = "getEnqueued"
  /\ calls' = [calls EXCEPT ![c].totalEnqueued = GET(enqueued[calls[c].q]),
                            ![c].pc = "getDequeued"]
  /\ UNCHANGED <<list, metadata, enqueued, dequeued, waiters, bq, clock,
                 nextId, nextSeq, popped, delivered, redelivered, started>>

GetQueueInfoGetDequeued(c) ==
  /\ calls[c].op = "getQueueInfo" /\ calls[c].pc = "getDequeued"
  /\ calls' = [calls EXCEPT ![c] = Return(@,
        [kind |-> "ok", name |-> calls[c].q, depth |-> calls[c].depth,
         totalEnqueued |-> calls[c].totalEnqueued,
         totalDequeued |-> GET(dequeued[calls[c].q]),
         oldestMessageAge |-> MessageAge(calls[c].oldest, clock),
         newestMessageAge |-> MessageAge(calls[c].newest, clock)])]
  /\ UNCHANGED <<list, metadata, enqueued, dequeued, waiters, bq, clock,
                 nextId, nextSeq, popped, delivered, redelivered, started>>

\* --------------------------------------------- QueuesService.deleteQueue
DeleteQueueLlen(c, q) ==
  /\ CanStart(c)
  /\ validateQueueName(q)
  /\ calls' = [calls EXCEPT ![c] =
       [NewCall EXCEPT !.op = "deleteQueue", !.q = q,
          !.depth = LLEN(list[q]), !.pc = "existsMetadata"]]
  /\ started' = started + 1
  /\ UNCHANGED <<list, metadata, enqueued, dequeued, waiters, bq, clock,
                 nextId, nextSeq, popped, delivered, redelivered>>

DeleteQueueExistsMetadata(c) ==
  /\ calls[c].op = "deleteQueue" /\ calls[c].pc = "existsMetadata"
  /\ calls' = [calls EXCEPT
        ![c].metadataExists = (metadata[calls[c].q] # Nil),
        ![c].pc = IF calls[c].depth = 0 /\ metadata[calls[c].q] = Nil
                    THEN "existsList" ELSE "delList"]
  /\ UNCHANGED <<list, metadata, enqueued, dequeued, waiters, bq, clock,
                 nextId, nextSeq, popped, delivered, redelivered, started>>

\* depth === 0 && !metadataExists && !(await redis.exists(`queue:...`))
DeleteQueueExistsList(c) ==
  /\ calls[c].op = "deleteQueue" /\ calls[c].pc = "existsList"
  /\ calls' = [calls EXCEPT ![c] =
       IF ~EXISTS(list[calls[c].q])
         THEN Return(@, [kind |-> "error", status |-> 404,
                         message |-> "Queue not found"])
         ELSE [@ EXCEPT !.pc = "delList"]]
  /\ UNCHANGED <<list, metadata, enqueued, dequeued, waiters, bq, clock,
                 nextId, nextSeq, popped, delivered, redelivered, started>>

DeleteQueueDelList(c) ==
  /\ calls[c].op = "deleteQueue" /\ calls[c].pc = "delList"
  /\ list' = [list EXCEPT ![calls[c].q] = <<>>]
  /\ calls' = [calls EXCEPT ![c].pc = "delMetadata",
                            ![c].deleted = @ \cup {"list"}]
  /\ UNCHANGED <<metadata, enqueued, dequeued, waiters, bq, clock, nextId,
                 nextSeq, popped, delivered, redelivered, started>>

DeleteQueueDelMetadata(c) ==
  /\ calls[c].op = "deleteQueue" /\ calls[c].pc = "delMetadata"
  /\ metadata' = [metadata EXCEPT ![calls[c].q] = Nil]
  /\ calls' = [calls EXCEPT ![c].pc = "delEnqueued",
                            ![c].deleted = @ \cup {"metadata"}]
  /\ UNCHANGED <<list, enqueued, dequeued, waiters, bq, clock, nextId,
                 nextSeq, popped, delivered, redelivered, started>>

DeleteQueueDelEnqueued(c) ==
  /\ calls[c].op = "deleteQueue" /\ calls[c].pc = "delEnqueued"
  /\ enqueued' = [enqueued EXCEPT ![calls[c].q] = NoKey]
  /\ calls' = [calls EXCEPT ![c].pc = "delDequeued",
                            ![c].deleted = @ \cup {"enqueued"}]
  /\ UNCHANGED <<list, metadata, dequeued, waiters, bq, clock, nextId,
                 nextSeq, popped, delivered, redelivered, started>>

DeleteQueueDelDequeuedSkipped(c) ==
  /\ calls[c].op = "deleteQueue" /\ calls[c].pc = "delDequeued"
  /\ calls' = [calls EXCEPT ![c] = Return(
        [@ EXCEPT !.deleted = @ \cup {"dequeued"}],
        [kind |-> "ok", success |-> TRUE, queue |-> calls[c].q,
         deletedMessages |-> calls[c].depth, timestamp |-> clock])]
  /\ UNCHANGED <<list, metadata, enqueued, dequeued, waiters, bq, clock,
                 nextId, nextSeq, popped, delivered, redelivered, started>>
DeleteQueueDelDequeued(c) ==
  /\ calls[c].op = "deleteQueue" /\ calls[c].pc = "delDequeued"
  /\ dequeued' = [dequeued EXCEPT ![calls[c].q] = NoKey]
  /\ calls' = [calls EXCEPT ![c] = Return(
        [@ EXCEPT !.deleted = @ \cup {"dequeued"}],
        [kind |-> "ok", success |-> TRUE, queue |-> calls[c].q,
         deletedMessages |-> calls[c].depth, timestamp |-> clock])]
  /\ UNCHANGED <<list, metadata, enqueued, waiters, bq, clock, nextId,
                 nextSeq, popped, delivered, redelivered, started>>

\* ----------------------------------------- QueuesService.getQueueMetrics
GetQueueMetricsResult(q, depth, age, now) ==
  [kind |-> "ok", queue |-> q, depth |-> depth, oldestMessageAge |-> age,
   timestamp |-> now]

GetQueueMetricsLlen(c, q) ==
  /\ CanStart(c)
  /\ validateQueueName(q)
  /\ calls' = [calls EXCEPT ![c] =
       IF LLEN(list[q]) > 0
         THEN [NewCall EXCEPT !.op = "getQueueMetrics", !.q = q,
                 !.depth = LLEN(list[q]), !.pc = "lindex"]
         ELSE Return([NewCall EXCEPT !.op = "getQueueMetrics", !.q = q],
                     GetQueueMetricsResult(q, 0, NoAge, clock))]
  /\ started' = started + 1
  /\ UNCHANGED <<list, metadata, enqueued, dequeued, waiters, bq, clock,
                 nextId, nextSeq, popped, delivered, redelivered>>

GetQueueMetricsLindex(c) ==
  /\ calls[c].op = "getQueueMetrics" /\ calls[c].pc = "lindex"
  /\ calls' = [calls EXCEPT ![c] = Return(@,
        GetQueueMetricsResult(calls[c].q, calls[c].depth,
           MessageAge(LINDEX(list[calls[c].q], -1), clock), clock))]
  /\ UNCHANGED <<list, metadata, enqueued, dequeued, waiters, bq, clock,
                 nextId, nextSeq, popped, delivered, redelivered, started>>

\* ---------------------------------------------- QueuesService.listQueues
Perms(S) ==
  {f \in [1..Cardinality(S) -> S] :
     \A a, b \in 1..Cardinality(S) : a # b => f[a] # f[b]}
\* the keys of the store: `queue:${name}`, `queue:${name}:metadata`,
\* `queue:${name}:stats:enqueued`, `queue:${name}:stats:dequeued`
KeyKinds == {"list", "metadata", "enqueued", "dequeued"}
KeyPrefix == <<"q", "u", "e", "u", "e", ":">>
MetadataSuffix == <<":", "m", "e", "t", "a", "d", "a", "t", "a">>
StatsInfix == <<":", "s", "t", "a", "t", "s", ":">>
KeySuffix(kind) ==
  CASE kind = "list" -> <<>>
    [] kind = "metadata" -> MetadataSuffix
    [] kind = "enqueued" ->
         StatsInfix \o <<"e", "n", "q", "u", "e", "u", "e", "d">>
    [] kind = "dequeued" ->
         StatsInfix \o <<"d", "e", "q", "u", "e", "u", "e", "d">>
KeyText(q, kind) == KeyPrefix \o Chars(q) \o KeySuffix(kind)
KeyExists(q, kind) ==
  CASE kind = "list" -> EXISTS(list[q])
    [] kind = "metadata" -> metadata[q] # Nil
    [] kind = "enqueued" -> enqueued[q] # NoKey
    [] kind = "dequeued" -> dequeued[q] # NoKey
\* redis.keys('queue:*')
KEYS ==
  {k \in [q : Names, kind : KeyKinds] : KeyExists(k.q, k.kind)}

\* String.prototype.includes, and String.prototype.replace(text, ''), which
\* takes out the first occurrence
Occurrences(t, p) ==
  {j \in 1..(Len(t) - Len(p) + 1) : SubSeq(t, j, j + Len(p) - 1) = p}
Includes(t, p) == Occurrences(t, p) # {}
Replace(t, p) ==
  IF Includes(t, p)
    THEN LET j == CHOOSE i \in Occurrences(t, p) :
                     \A h \in Occurrences(t, p) : i <= h
         IN SubSeq(t, 1, j - 1) \o SubSeq(t, j + Len(p), Len(t))
    ELSE t
\* the name that has these characters
NameOfText(t) == CHOOSE n \in Names \cup StatsKeyNames : Chars(n) = t

\* keys.filter(k => !k.includes(':stats:') && !k.includes(':metadata')) and
\* keys.filter(k => k.includes(':metadata')), and the names made of them:
\* k.replace('queue:', '') and k.replace('queue:', '').replace(':metadata', '')
QueueDataKeys ==
  {NameOfText(Replace(KeyText(k.q, k.kind), KeyPrefix)) :
     k \in {h \in KEYS : /\ ~Includes(KeyText(h.q, h.kind), StatsInfix)
                         /\ ~Includes(KeyText(h.q, h.kind), MetadataSuffix)}}
MetadataKeys ==
  {NameOfText(Replace(Replace(KeyText(k.q, k.kind), KeyPrefix),
                      MetadataSuffix)) :
     k \in {h \in KEYS : Includes(KeyText(h.q, h.kind), MetadataSuffix)}}
\* LLEN of a key that holds a text and no list: the store answers WRONGTYPE
WrongType(name) ==
  \E k \in KEYS : /\ k.kind # "list"
                  /\ KeyText(k.q, k.kind) = KeyPrefix \o Chars(name)
ListOf(name) == IF name \in Names THEN list[name] ELSE <<>>
\* the Set of names: those of the data keys in the order KEYS gave them,
\* then those of the metadata keys not yet in it
QueueNames ==
  {d \o m : d \in Perms(QueueDataKeys),
            m \in Perms(MetadataKeys \ QueueDataKeys)}
NoItem(name) ==
  [name |-> name, depth |-> 0, oldestMessageAge |-> NoAge, createdAt |-> Nil]
ListQueuesResult(items) ==
  [kind |-> "ok", queues |-> items, total |-> Len(items)]
\* the next name after k whose list was not empty, or 0
NextWithDepth(items, k) ==
  IF \E j \in (k + 1)..Len(items) : items[j].depth > 0
    THEN CHOOSE j \in (k + 1)..Len(items) :
            /\ items[j].depth > 0
            /\ \A i \in (k + 1)..(j - 1) : items[i].depth = 0
    ELSE 0

\* KEYS queue:*; Promise.all then starts one chain of reads per name, whose
\* commands reach the store over the one connection: each LLEN, then each
\* GET, then each LINDEX
ListQueuesKeys(c) ==
  /\ CanStart(c)
  /\ \E names \in QueueNames :
       calls' = [calls EXCEPT ![c] =
         IF names = <<>>
           THEN Return([NewCall EXCEPT !.op = "listQueues"],
                       ListQueuesResult(<<>>))
           ELSE [NewCall EXCEPT !.op = "listQueues", !.names = names,
                   !.items = [j \in 1..Len(names) |-> NoItem(names[j])],
                   !.k = 1, !.pc = "llen"]]
  /\ started' = started + 1
  /\ UNCHANGED <<list, metadata, enqueued, dequeued, waiters, bq, clock,
                 nextId, nextSeq, popped, delivered, redelivered>>

\* the rejection of one chain rejects Promise.all, and the controller answers
\* with InternalServerErrorException
ListQueuesLlen(c) ==
  /\ calls[c].op = "listQueues" /\ calls[c].pc = "llen"
  /\ calls' = [calls EXCEPT ![c] =
       IF WrongType(calls[c].names[calls[c].k])
         THEN Return(@, [kind |-> "error", status |-> 500,
                         message |-> "Internal server error"])
         ELSE [@ EXCEPT
           !.items[calls[c].k].depth = LLEN(ListOf(calls[c].names[calls[c].k])),
           !.k = IF calls[c].k < Len(calls[c].names) THEN @ + 1 ELSE 1,
           !.pc = IF calls[c].k < Len(calls[c].names) THEN "llen" ELSE "get"]]
  /\ UNCHANGED <<list, metadata, enqueued, dequeued, waiters, bq, clock,
                 nextId, nextSeq, popped, delivered, redelivered, started>>

\* GET queue:name:metadata, createdAt of it; after the last one the LINDEX
\* of the first name that had messages, or the response
ListQueuesGet(c) ==
  /\ calls[c].op = "listQueues" /\ calls[c].pc = "get"
  /\ LET k == calls[c].k
         md == IF calls[c].names[k] \in Names
                 THEN metadata[calls[c].names[k]] ELSE Nil
         items == [calls[c].items EXCEPT ![k].createdAt =
                     IF md = Nil THEN Nil ELSE JSONparse(md).createdAt]
     IN calls' = [calls EXCEPT ![c] =
          IF k < Len(calls[c].names)
            THEN [@ EXCEPT !.items = items, !.k = k + 1]
            ELSE IF NextWithDepth(items, 0) = 0
              THEN Return(@, ListQueuesResult(items))
              ELSE [@ EXCEPT !.items = items,
                             !.k = NextWithDepth(items, 0),
                             !.pc = "lindex"]]
  /\ UNCHANGED <<list, metadata, enqueued, dequeued, waiters, bq, clock,
                 nextId, nextSeq, popped, delivered, redelivered, started>>

ListQueuesLindex(c) ==
  /\ calls[c].op = "listQueues" /\ calls[c].pc = "lindex"
  /\ LET k == calls[c].k
         items == [calls[c].items EXCEPT ![k].oldestMessageAge =
                     MessageAge(LINDEX(ListOf(calls[c].names[k]), -1), clock)]
     IN calls' = [calls EXCEPT ![c] =
          IF NextWithDepth(items, k) = 0
            THEN Return(@, ListQueuesResult(items))
            ELSE [@ EXCEPT !.items = items, !.k = NextWithDepth(items, k)]]
  /\ UNCHANGED <<list, metadata, enqueued, dequeued, waiters, bq, clock,
                 nextId, nextSeq, popped, delivered, redelivered, started>>

\* ------------------------------------------ QueuesService.getSystemStats
\* keys.filter((k) => !k.includes(':stats:'))
queueKeys ==
  {k \in KEYS : ~Includes(KeyText(k.q, k.kind), StatsInfix)}

\* KEYS queue:*, the filter, the loop variables; the keys in the order the
\* store gave them
GetSystemStatsKeys(c) ==
  /\ CanStart(c)
  /\ \E ks \in Perms(queueKeys) :
       calls' = [calls EXCEPT ![c] =
         [NewCall EXCEPT !.op = "getSystemStats",
            !.names = [j \in 1..Len(ks) |-> ks[j].q],
            !.kinds = [j \in 1..Len(ks) |-> ks[j].kind],
            !.k = 1, !.pc = IF ks = <<>> THEN "info" ELSE "llen"]]
  /\ started' = started + 1
  /\ UNCHANGED <<list, metadata, enqueued, dequeued, waiters, bq, clock,
                 nextId, nextSeq, popped, delivered, redelivered>>

\* for (const key of queueKeys) { const depth = await redis.llen(key); ... }
\* LLEN of a key that holds a text is answered WRONGTYPE: the handler
\* rejects and the controller answers InternalServerErrorException; LLEN of
\* a key that is gone is 0
GetSystemStatsLlen(c) ==
  /\ calls[c].op = "getSystemStats" /\ calls[c].pc = "llen"
  /\ LET q == calls[c].names[calls[c].k]
         kind == calls[c].kinds[calls[c].k]
         depth == IF kind = "list" THEN LLEN(list[q]) ELSE 0
     IN calls' = [calls EXCEPT ![c] =
          IF kind # "list" /\ KeyExists(q, kind)
            THEN Return(@, [kind |-> "error", status |-> 500,
                            message |-> "Internal server error"])
            ELSE [@ EXCEPT
              !.depth = @ + depth,
              !.count = IF depth > 0 THEN @ + 1 ELSE @,
              !.k = @ + 1,
              !.pc = IF calls[c].k < Len(calls[c].names)
                       THEN "llen" ELSE "info"]]
  /\ UNCHANGED <<list, metadata, enqueued, dequeued, waiters, bq, clock,
                 nextId, nextSeq, popped, delivered, redelivered, started>>

\* INFO memory, and the response (without the store's memory figure)
GetSystemStatsInfo(c) ==
  /\ calls[c].op = "getSystemStats" /\ calls[c].pc = "info"
  /\ calls' = [calls EXCEPT ![c] = Return(@,
        [kind |-> "ok",
         queues |-> [total |-> Len(calls[c].names),
                     active |-> calls[c].count,
                     empty |-> Len(calls[c].names) - calls[c].count],
         messages |-> [totalDepth |-> calls[c].depth],
         timestamp |-> clock])]
  /\ UNCHANGED <<list, metadata, enqueued, dequeued, waiters, bq, clock,
                 nextId, nextSeq, popped, delivered, redelivered, started>>

\* ------------------------------------------------ a store command fails
\* The command a handler awaits is rejected (connection lost and not
\* re-established within the retries, or an error reply): the handler has
\* no catch, the controller answers every error that is no HTTP exception
\* with InternalServerErrorException.  A BRPOP that was waiting is gone
\* with its connection.  bulkEnqueue awaits exec(), see above; a dequeue
\* whose BRPOP answered nil awaits nothing more.
AwaitsCommand(c) ==
  /\ Active(c)
  /\ calls[c].op # "bulkEnqueue"
  /\ ~(calls[c].op \in DequeueOps /\ calls[c].pc = "reply"
         /\ calls[c].reply = Nil)
StoreFails(c) ==
  /\ AwaitsCommand(c)
  /\ calls' = [calls EXCEPT ![c] = Return([@ EXCEPT !.failed = TRUE],
        [kind |-> "error", status |-> 500,
         message |-> "Internal server error"])]
  /\ waiters' = [q \in DOMAIN waiters |->
                   SelectSeq(waiters[q], LAMBDA w : w # c)]
  /\ bq' = [i \in DOMAIN bq |-> SelectSeq(bq[i], LAMBDA w : w # c)]
  /\ UNCHANGED <<list, metadata, enqueued, dequeued, clock, nextId,
                 nextSeq, popped, delivered, redelivered, started>>

\* ------------------------------------- every handler that takes a name
NamedOps ==
  {"enqueue", "dequeue", "enqueueMessage", "dequeueMessage", "peekMessages",
   "bulkEnqueue", "purgeQueue", "createQueue", "getQueueInfo", "deleteQueue",
   "getQueueMetrics"}

\* if (!validateQueueName(queueName)) throw new BadRequestException(...)
InvalidQueueName(c, op, name) ==
  /\ CanStart(c)
  /\ op \in NamedOps
  /\ ~validateQueueName(name)
  /\ calls' = [calls EXCEPT ![c] = Return([NewCall EXCEPT !.op = op],
        [kind |-> "error", status |-> 400, message |-> "Invalid queue name",
         name |-> name])]
  /\ started' = started + 1
  /\ UNCHANGED <<list, metadata, enqueued, dequeued, waiters, bq, clock,
                 nextId, nextSeq, popped, delivered, redelivered>>

\* POST /internal/queues with a body without name: createQueue(undefined).
\* The pattern of validateQueueName matches the text "undefined", and
\* name.length then throws a TypeError, which is no BadRequestException: the
\* controller answers it with InternalServerErrorException
CreateQueueNoName(c) ==
  /\ CanStart(c)
  /\ Len(Chars(NoName)) >= 1
  /\ \A j \in 1..Len(Chars(NoName)) : Chars(NoName)[j] \in NameChars
  /\ calls' = [calls EXCEPT ![c] = Return([NewCall EXCEPT !.op = "createQueue"],
        [kind |-> "error", status |-> 500, message |-> "Internal server error",
         name |-> NoName])]
  /\ started' = started + 1
  /\ UNCHANGED <<list, metadata, enqueued, dequeued, waiters, bq, clock,
                 nextId, nextSeq, popped, delivered, redelivered>>

\* ------------------------------------------------------- calls and steps
StartEnqueue(Q, P) ==
  \E c \in Slots, q \in Q, p \in P :
     \/ ApiEnqueueLpush(c, q, p)
     \/ EnqueueMessageExists(c, q, p)
StartDequeue(Q, I, T) ==
  \E c \in Slots, i \in I, q \in Q, op \in DequeueOps, t \in T :
     DequeueStart(c, i, q, op, t)
StartBulkEnqueue(Q, B) ==
  \E c \in Slots, q \in Q, ps \in B : BulkEnqueueStart(c, q, ps)
StartPeek(Q, N) ==
  \E c \in Slots, q \in Q, count \in N : PeekMessagesLrange(c, q, count)
StartPurge(Q) == \E c \in Slots, q \in Q : PurgeQueueLlen(c, q)
StartCreate(Q) == \E c \in Slots, q \in Q : CreateQueueExists(c, q)
StartInfo(Q) == \E c \in Slots, q \in Q : GetQueueInfoLlen(c, q)
StartDelete(Q) == \E c \in Slots, q \in Q : DeleteQueueLlen(c, q)
StartMetrics(Q) == \E c \in Slots, q \in Q : GetQueueMetricsLlen(c, q)
StartList == \E c \in Slots : ListQueuesKeys(c)
StartInvalid(O, Q) ==
  \E c \in Slots, op \in O, name \in Q : InvalidQueueName(c, op, name)
StartNoName == \E c \in Slots : CreateQueueNoName(c)

EnqueueSteps ==
  \E c \in Slots :
     \/ ApiEnqueueIncr(c)
     \/ EnqueueMessageSet(c)
     \/ EnqueueMessageLpush(c)
     \/ EnqueueMessageIncr(c)
DequeueSteps ==
  \E c \in Slots :
     \/ BrpopExec(c)
     \/ BrpopTimeout(c)
     \/ ApiDequeueReturn(c)
     \/ DequeueMessageReturn(c)
BulkEnqueueSteps ==
  \E c \in Slots :
     \/ BulkEnqueueLpush(c)
     \/ BulkEnqueueIncrby(c)
InfoSteps ==
  \E c \in Slots :
     \/ GetQueueInfoExists(c)
     \/ GetQueueInfoLindexOldest(c)
     \/ GetQueueInfoLindexNewest(c)
     \/ GetQueueInfoGetEnqueued(c)
     \/ GetQueueInfoGetDequeued(c)
DeleteSteps ==
  \E c \in Slots :
     \/ DeleteQueueExistsMetadata(c)
     \/ DeleteQueueExistsList(c)
     \/ DeleteQueueDelList(c)
     \/ DeleteQueueDelMetadata(c)
     \/ DeleteQueueDelEnqueued(c)
     \/ DeleteQueueDelDequeued(c)

ListSteps ==
  \E c \in Slots :
     \/ ListQueuesLlen(c)
     \/ ListQueuesGet(c)
     \/ ListQueuesLindex(c)

Budget(n) == started < n

\* ---------------------------------------- every handler, every input
MaxCalls == 2
Next ==
  \/ Tick
  \/ /\ Budget(MaxCalls)
     /\ \/ StartEnqueue(Queues, Payloads)
        \/ StartDequeue(Queues, Instances, Timeouts)
        \/ StartBulkEnqueue(Queues, Batches)
        \/ StartPeek(Queues, Counts)
        \/ StartPurge(Queues)
        \/ StartCreate(Queues)
        \/ StartInfo(Queues)
        \/ StartDelete(Queues)
        \/ StartMetrics(Queues)
        \/ StartList
        \/ \E c \in Slots : GetSystemStatsKeys(c)
        \/ StartInvalid(NamedOps, InvalidNames)
        \/ StartNoName
  \/ EnqueueSteps
  \/ DequeueSteps
  \/ BulkEnqueueSteps
  \/ \E c \in Slots : BulkEnqueueStoreFails(c)
  \/ \E c \in Slots : PeekMessagesLlen(c)
  \/ \E c \in Slots : PurgeQueueDel(c)
  \/ \E c \in Slots : CreateQueueSet(c)
  \/ InfoSteps
  \/ DeleteSteps
  \/ \E c \in Slots : GetQueueMetricsLindex(c)
  \/ ListSteps
  \/ \E c \in Slots : GetSystemStatsLlen(c)
  \/ \E c \in Slots : GetSystemStatsInfo(c)
  \/ \E c \in Slots : StoreFails(c)
  \/ \E c \in Slots : EnqueueMessageLpushUnanswered(c)

Spec == Init /\ [][Next]_vars

\* ---- enqueues, bulk enqueues and dequeues of the internal API racing on
\* ---- one queue
DeliverCalls == 3
MsgA == [text |-> "A"]
MsgB == [text |-> "B"]
MsgC == [text |-> "C"]
OrderedBatches == {SubSeq(<<MsgA, MsgB, MsgC>>, 1, MaxBatch)}
DeliverNext ==
  \/ /\ Budget(DeliverCalls)
     /\ \/ \E c \in Slots : EnqueueMessageExists(c, "orders", MsgA)
        \/ \E c \in Slots, i \in Instances :
              DequeueStart(c, i, "orders", "dequeueMessage", 1000)
        \/ StartBulkEnqueue({"orders"}, OrderedBatches)
  \/ \E c \in Slots : EnqueueMessageSet(c)
  \/ \E c \in Slots : EnqueueMessageLpush(c)
  \/ \E c \in Slots : EnqueueMessageIncr(c)
  \/ \E c \in Slots : BrpopExec(c)
  \/ \E c \in Slots : BrpopTimeout(c)
  \/ \E c \in Slots : DequeueMessageReturn(c)
  \/ BulkEnqueueSteps
DeliverSpec == Init /\ [][DeliverNext]_vars

\* ---- A, B, C enqueued one after the other through the simple API, and
\* ---- dequeues of both instances at any time
FifoCalls == 6
InOrder == <<MsgA, MsgB, MsgC>>
FifoNext ==
  \/ /\ Budget(FifoCalls)
     /\ \/ /\ nextSeq < Len(InOrder)
           /\ \A d \in Slots : calls[d].op = "enqueue" => ~Active(d)
           /\ \E c \in Slots : ApiEnqueueLpush(c, "orders", InOrder[nextSeq + 1])
        \/ \E c \in Slots, i \in Instances :
              DequeueStart(c, i, "orders", "dequeue", 1000)
  \/ \E c \in Slots : ApiEnqueueIncr(c)
  \/ \E c \in Slots : BrpopExec(c)
  \/ \E c \in Slots : BrpopTimeout(c)
  \/ \E c \in Slots : ApiDequeueReturn(c)
FifoSpec == Init /\ [][FifoNext]_vars

\* ------------ an enqueue and a dequeue on either queue, the clock running
RoundTripCalls == 2
RoundTripNext ==
  \/ Tick
  \/ /\ Budget(RoundTripCalls)
     /\ \/ StartEnqueue(Queues, {MsgA, MsgB})
        \/ StartDequeue(Queues, {1}, {1000})
  \/ EnqueueSteps
  \/ DequeueSteps
RoundTripSpec == Init /\ [][RoundTripNext]_vars

\* ------------------------------------ dequeues on queues that stay empty
EmptyCalls == 2
EmptyNext ==
  \/ /\ Budget(EmptyCalls)
     /\ StartDequeue(Queues, Instances, Timeouts)
  \/ DequeueSteps
\* the store executes the commands it received and ends a BRPOP whose
\* timeout is due; a handler runs on when its reply arrived
DequeueFairness(ids) ==
  \A c \in ids :
     /\ WF_vars(BrpopExec(c))
     /\ WF_vars(BrpopTimeout(c))
     /\ WF_vars(ApiDequeueReturn(c))
     /\ WF_vars(DequeueMessageReturn(c))
EmptySpec == Init /\ [][EmptyNext]_vars /\ DequeueFairness(CallIds)

\* ------------- one message in the queue, then two dequeues race for it
RaceCalls == 3
RaceNext ==
  \/ /\ started = 0
     /\ StartEnqueue({"orders"}, {MsgA})
  \/ /\ started > 0 /\ Budget(RaceCalls)
     /\ enqueued["orders"] = 1
     /\ StartDequeue({"orders"}, Instances, {500, 1000})
  \/ EnqueueSteps
  \/ DequeueSteps
RaceSpec == Init /\ [][RaceNext]_vars /\ DequeueFairness(CallIds)

\* ---- an instance waits on "jobs", a second dequeue waits on "orders", and
\* ---- a message is enqueued to "orders" during that wait; three requests
\* ---- are in flight together
WaitCalls == 3
WaitIds == 1..(MaxActive + 1)
WaitInit == InitWith(WaitIds)
Waiting(c) ==
  calls[c].op \in DequeueOps /\ calls[c].pc \in {"brpop", "blocked"}
WaitNext ==
  \/ /\ started = 0
     /\ StartDequeue({"jobs"}, {1}, {500, 1000})
  \/ /\ started = 1
     /\ StartDequeue({"orders"}, Instances, {1000})
  \/ /\ started = 2 /\ Budget(WaitCalls)
     /\ \E d \in Slots : Waiting(d) /\ calls[d].q = "orders"
     /\ StartEnqueue({"orders"}, {MsgA})
  \/ EnqueueSteps
  \/ DequeueSteps
WaitSpec ==
  /\ WaitInit /\ [][WaitNext]_vars
  /\ DequeueFairness(WaitIds) /\ WF_vars(EnqueueSteps)

\* -------- bulk enqueues next to readers and consumers; the store may fail
BulkCalls == 3
BulkNext ==
  \/ /\ Budget(BulkCalls)
     /\ \/ StartBulkEnqueue({"orders"}, OrderedBatches)
        \/ StartPeek({"orders"}, {10})
        \/ StartDequeue({"orders"}, {1}, {1000})
        \/ StartPurge({"orders"})
  \/ BulkEnqueueSteps
  \/ \E c \in Slots : BulkEnqueueStoreFails(c)
  \/ \E c \in Slots : PeekMessagesLlen(c)
  \/ DequeueSteps
  \/ \E c \in Slots : PurgeQueueDel(c)
BulkSpec == Init /\ [][BulkNext]_vars

\* --------------------- a queue is deleted while other calls use the name
DeleteCalls == 3
DeleteNext ==
  \/ /\ Budget(DeleteCalls)
     /\ \/ \E c \in Slots : EnqueueMessageExists(c, "orders", MsgA)
        \/ StartDelete({"orders"})
        \/ StartInfo({"orders"})
  \/ \E c \in Slots : EnqueueMessageSet(c)
  \/ \E c \in Slots : EnqueueMessageLpush(c)
  \/ \E c \in Slots : EnqueueMessageIncr(c)
  \/ DeleteSteps
  \/ InfoSteps
DeleteSpec == Init /\ [][DeleteNext]_vars

\* ---- every operation that keeps a queue, on one queue: those that count
\* ---- and those that do not
CountCalls == 2
CountNext ==
  \/ /\ Budget(CountCalls)
     /\ \/ StartEnqueue({"orders"}, {MsgA})
        \/ StartBulkEnqueue({"orders"}, OrderedBatches)
        \/ StartDequeue({"orders"}, {1}, {1000})
        \/ StartPeek({"orders"}, {1})
        \/ StartPurge({"orders"})
        \/ StartCreate({"orders"})
        \/ StartInfo({"orders"})
        \/ StartList
  \/ EnqueueSteps
  \/ BulkEnqueueSteps
  \/ DequeueSteps
  \/ \E c \in Slots : PeekMessagesLlen(c)
  \/ \E c \in Slots : PurgeQueueDel(c)
  \/ \E c \in Slots : CreateQueueSet(c)
  \/ InfoSteps
  \/ ListSteps
CountSpec == Init /\ [][CountNext]_vars

\* ---- the operations that write the counters, and those that remove keys
MonotoneCalls == 2
MonotoneNext ==
  \/ /\ Budget(MonotoneCalls)
     /\ \/ StartEnqueue({"orders"}, {MsgA})
        \/ StartBulkEnqueue({"orders"}, OrderedBatches)
        \/ StartDequeue({"orders"}, {1}, {1000})
        \/ StartPurge({"orders"})
        \/ StartDelete({"orders"})
  \/ EnqueueSteps
  \/ BulkEnqueueSteps
  \/ DequeueSteps
  \/ \E c \in Slots : PurgeQueueDel(c)
  \/ DeleteSteps
MonotoneSpec == Init /\ [][MonotoneNext]_vars

\* ---- A, B, C are enqueued one after the other through the internal API;
\* ---- then the queue is only read, by peeks of several counts
PeekCalls == 4
PeekCounts == {0, 1, 2, 101}
Peeking == \E c \in Slots : calls[c].op = "peekMessages"
PeekNext ==
  \/ /\ Budget(PeekCalls)
     /\ \/ /\ nextId < Len(InOrder)
           /\ ~Peeking
           /\ \A d \in Slots : ~Active(d)
           /\ \E c \in Slots :
                 EnqueueMessageExists(c, "orders", InOrder[nextId + 1])
        \/ /\ \A d \in Slots : calls[d].op = "enqueueMessage" => ~Active(d)
           /\ StartPeek({"orders"}, PeekCounts)
  \/ \E c \in Slots : EnqueueMessageSet(c)
  \/ \E c \in Slots : EnqueueMessageLpush(c)
  \/ \E c \in Slots : EnqueueMessageIncr(c)
  \/ \E c \in Slots : PeekMessagesLlen(c)
PeekSpec == Init /\ [][PeekNext]_vars

\* ---- a dequeue that waits, and next to it every other operation
NonBlockingCalls == 2
NonBlockingNext ==
  \/ /\ Budget(NonBlockingCalls)
     /\ \/ StartDequeue({"orders"}, {1}, {500, 1000})
        \/ StartEnqueue({"orders"}, {MsgA})
        \/ StartBulkEnqueue({"orders"}, OrderedBatches)
        \/ StartPeek({"orders"}, {10})
        \/ StartPurge({"orders"})
        \/ StartCreate({"orders"})
        \/ StartInfo({"orders"})
        \/ StartDelete({"orders"})
        \/ StartMetrics({"orders"})
        \/ StartList
  \/ DequeueSteps
  \/ EnqueueSteps
  \/ BulkEnqueueSteps
  \/ \E c \in Slots : PeekMessagesLlen(c)
  \/ \E c \in Slots : PurgeQueueDel(c)
  \/ \E c \in Slots : CreateQueueSet(c)
  \/ InfoSteps
  \/ DeleteSteps
  \/ \E c \in Slots : GetQueueMetricsLindex(c)
  \/ ListSteps
NonBlockingSpec == Init /\ [][NonBlockingNext]_vars

\* ---- every operation that takes a queue name, called with every name but
\* the two of the other scenarios, one call after the other
ValidateCalls == 2
ValidateNames == EdgeNames \cup InvalidNames
ValidateNext ==
  \/ /\ Budget(ValidateCalls)
     /\ \A c \in Slots : ~Active(c)
     /\ \/ StartInvalid(NamedOps, ValidateNames)
        \/ StartNoName
        \/ StartEnqueue(ValidateNames, {MsgA})
        \/ StartDequeue(ValidateNames, {1}, {1000})
        \/ StartBulkEnqueue(ValidateNames, OrderedBatches)
        \/ StartPeek(ValidateNames, {1})
        \/ StartPurge(ValidateNames)
        \/ StartCreate(ValidateNames)
        \/ StartInfo(ValidateNames)
        \/ StartDelete(ValidateNames)
        \/ StartMetrics(ValidateNames)
  \/ DequeueSteps
  \/ EnqueueSteps
  \/ BulkEnqueueSteps
  \/ \E c \in Slots : PeekMessagesLlen(c)
  \/ \E c \in Slots : PurgeQueueDel(c)
  \/ \E c \in Slots : CreateQueueSet(c)
  \/ InfoSteps
  \/ DeleteSteps
  \/ \E c \in Slots : GetQueueMetricsLindex(c)
ValidateSpec == Init /\ [][ValidateNext]_vars

\* ---- dequeues at and above the timeout ceiling, next to an enqueue
TimeoutCalls == 3
CeilingTimeouts == {MaxTimeoutMs, MaxTimeoutMs + 1}
TimeoutNext ==
  \/ /\ Budget(TimeoutCalls)
     /\ \/ StartEnqueue({"orders"}, {MsgA})
        \/ StartDequeue({"orders"}, {1}, CeilingTimeouts)
  \/ EnqueueSteps
  \/ DequeueSteps
TimeoutSpec == Init /\ [][TimeoutNext]_vars

\* ---- purges next to enqueues and dequeues of one queue
PurgeCalls == 3
PurgeNext ==
  \/ Tick
  \/ /\ Budget(PurgeCalls)
     /\ \/ \E c \in Slots : EnqueueMessageExists(c, "orders", MsgA)
        \/ StartDequeue({"orders"}, {1}, {1000})
        \/ StartPurge({"orders"})
  \/ \E c \in Slots : \/ EnqueueMessageSet(c)
                      \/ EnqueueMessageLpush(c)
                      \/ EnqueueMessageIncr(c)
  \/ \E c \in Slots : \/ BrpopExec(c)
                      \/ BrpopTimeout(c)
                      \/ DequeueMessageReturn(c)
  \/ \E c \in Slots : PurgeQueueDel(c)
PurgeSpec == Init /\ [][PurgeNext]_vars

\* ---- explicit creates next to enqueues that create on first use
CreateCalls == 3
CreateNext ==
  \/ Tick
  \/ /\ Budget(CreateCalls)
     /\ \/ StartCreate({"orders"})
        \/ \E c \in Slots : EnqueueMessageExists(c, "orders", MsgA)
  \/ \E c \in Slots : CreateQueueSet(c)
  \/ \E c \in Slots : \/ EnqueueMessageSet(c)
                      \/ EnqueueMessageLpush(c)
                      \/ EnqueueMessageIncr(c)
CreateSpec == Init /\ [][CreateNext]_vars

\* ---- a queue is filled through each enqueue entry point, emptied by
\* dequeues, and looked up by info and list, one call after the other
DiscoverCalls == 3
DiscoverNext ==
  \/ /\ Budget(DiscoverCalls)
     /\ \A c \in Slots : ~Active(c)
     /\ \/ StartEnqueue({"orders"}, {MsgA})
        \/ StartBulkEnqueue({"orders"}, OrderedBatches)
        \/ StartDequeue({"orders"}, {1}, {1000})
        \/ StartInfo({"orders"})
        \/ StartList
  \/ EnqueueSteps
  \/ BulkEnqueueSteps
  \/ DequeueSteps
  \/ InfoSteps
  \/ ListSteps
DiscoverSpec == Init /\ [][DiscoverNext]_vars

\* ---- info on a queue that was created, filled, emptied or purged, one
\* call after the other
InfoCalls == 3
InfoNext ==
  \/ /\ Budget(InfoCalls)
     /\ \A c \in Slots : ~Active(c)
     /\ \/ StartCreate({"orders"})
        \/ \E c \in Slots : EnqueueMessageExists(c, "orders", MsgA)
        \/ StartDequeue({"orders"}, {1}, {1000})
        \/ StartPurge({"orders"})
        \/ StartInfo({"orders"})
  \/ \E c \in Slots : CreateQueueSet(c)
  \/ \E c \in Slots : \/ EnqueueMessageSet(c)
                      \/ EnqueueMessageLpush(c)
                      \/ EnqueueMessageIncr(c)
  \/ \E c \in Slots : \/ BrpopExec(c)
                      \/ BrpopTimeout(c)
                      \/ DequeueMessageReturn(c)
  \/ \E c \in Slots : PurgeQueueDel(c)
  \/ InfoSteps
InfoSpec == Init /\ [][InfoNext]_vars

\* ---- deletes of a queue that was filled, emptied or created, followed by
\* info and re-creation, one call after the other
DeleteAloneCalls == 3
DeleteAloneNext ==
  \/ /\ Budget(DeleteAloneCalls)
     /\ \A c \in Slots : ~Active(c)
     /\ \/ StartEnqueue({"orders"}, {MsgA})
        \/ StartDequeue({"orders"}, {1}, {1000})
        \/ StartCreate({"orders"})
        \/ StartDelete({"orders"})
        \/ StartInfo({"orders"})
  \/ EnqueueSteps
  \/ DequeueSteps
  \/ \E c \in Slots : CreateQueueSet(c)
  \/ DeleteSteps
  \/ InfoSteps
DeleteAloneSpec == Init /\ [][DeleteAloneNext]_vars

\* ---- list after enqueues, creates and dequeues on two queues, one of them
\* named "metadata", one call after the other
ListCalls == 3
ListedQueues == {"orders"} \cup TrapNames
ListNext ==
  \/ /\ Budget(ListCalls)
     /\ \A c \in Slots : ~Active(c)
     /\ \/ \E c \in Slots, q \in ListedQueues : EnqueueMessageExists(c, q, MsgA)
        \/ StartCreate(ListedQueues)
        \/ StartDequeue(ListedQueues, {1}, {1000})
        \/ StartList
  \/ \E c \in Slots : \/ EnqueueMessageSet(c)
                      \/ EnqueueMessageLpush(c)
                      \/ EnqueueMessageIncr(c)
  \/ \E c \in Slots : CreateQueueSet(c)
  \/ \E c \in Slots : \/ BrpopExec(c)
                      \/ BrpopTimeout(c)
                      \/ DequeueMessageReturn(c)
  \/ ListSteps
ListSpec == Init /\ [][ListNext]_vars

\* ---- enqueues, bulk enqueues, dequeues and peeks of one queue while store
\* commands may fail
FailureCalls == 2
FailureNext ==
  \/ /\ Budget(FailureCalls)
     /\ \/ \E c \in Slots : EnqueueMessageExists(c, "orders", MsgA)
        \/ StartBulkEnqueue({"orders"}, OrderedBatches)
        \/ StartDequeue({"orders"}, {1}, {1000})
        \/ StartPeek({"orders"}, {10})
  \/ \E c \in Slots : \/ EnqueueMessageSet(c)
                      \/ EnqueueMessageLpush(c)
                      \/ EnqueueMessageIncr(c)
  \/ BulkEnqueueSteps
  \/ DequeueSteps
  \/ \E c \in Slots : PeekMessagesLlen(c)
  \/ \E c \in Slots : StoreFails(c)
  \/ \E c \in Slots : BulkEnqueueStoreFails(c)
FailureSpec == Init /\ [][FailureNext]_vars

\* ---- enqueues and dequeues of one queue while the connection to the store
\* may be lost and re-established
ReconnectCalls == 2
ReconnectNext ==
  \/ /\ Budget(ReconnectCalls)
     /\ \/ \E c \in Slots : EnqueueMessageExists(c, "orders", MsgA)
        \/ StartDequeue({"orders"}, {1}, {1000})
  \/ \E c \in Slots : \/ EnqueueMessageSet(c)
                      \/ EnqueueMessageLpush(c)
                      \/ EnqueueMessageIncr(c)
  \/ \E c \in Slots : EnqueueMessageLpushUnanswered(c)
  \/ DequeueSteps
ReconnectSpec == Init /\ [][ReconnectNext]_vars

\* ---- every operation that takes a name, on two queues, one call after
\* the other
IsolationCalls == 3
IsolationNext ==
  \/ /\ Budget(IsolationCalls)
     /\ \A c \in Slots : ~Active(c)
     /\ \/ StartEnqueue(Queues, {MsgA})
        \/ StartBulkEnqueue(Queues, OrderedBatches)
        \/ StartDequeue(Queues, {1}, {1000})
        \/ StartPeek(Queues, {1})
        \/ StartPurge(Queues)
        \/ StartCreate(Queues)
        \/ StartInfo(Queues)
        \/ StartDelete(Queues)
  \/ EnqueueSteps
  \/ BulkEnqueueSteps
  \/ DequeueSteps
  \/ \E c \in Slots : PeekMessagesLlen(c)
  \/ \E c \in Slots : PurgeQueueDel(c)
  \/ \E c \in Slots : CreateQueueSet(c)
  \/ InfoSteps
  \/ DeleteSteps
IsolationSpec == Init /\ [][IsolationNext]_vars

\* ---- system statistics after enqueues through both APIs, creates and
\* dequeues on one queue, one call after the other
StatsCalls == 3
StatsNext ==
  \/ /\ Budget(StatsCalls)
     /\ \A c \in Slots : ~Active(c)
     /\ \/ StartEnqueue({"orders"}, {MsgA})
        \/ StartCreate({"orders"})
        \/ StartDequeue({"orders"}, {1}, {1000})
        \/ \E c \in Slots : GetSystemStatsKeys(c)
  \/ EnqueueSteps
  \/ \E c \in Slots : CreateQueueSet(c)
  \/ DequeueSteps
  \/ \E c \in Slots : GetSystemStatsLlen(c)
  \/ \E c \in Slots : GetSystemStatsInfo(c)
StatsSpec == Init /\ [][StatsNext]_vars

\* ================================================================ claims
Dequeue(c) == calls[c].op \in DequeueOps
Returned(c) == calls[c].pc = "done"
GotMessage(c) == Dequeue(c) /\ Returned(c) /\ calls[c].res.kind = "ok"
GotNothing(c) == Dequeue(c) /\ Returned(c) /\ calls[c].res.kind = "null"
Replies == {calls[c].reply : c \in {d \in Slots : calls[d].reply # Nil}}
PoppedSeqs(q) == {popped[q][j].seq : j \in 1..Len(popped[q])}

\* C1: exactly-once delivery.  No appended element is returned by two
\* dequeue calls: BRPOP removes each element at most once, no element is
\* held by two calls or left in the list after it was popped, and no
\* element is returned to a caller twice.
C1_ExactlyOnce ==
  /\ redelivered = {}
  /\ \A c, d \in Slots :
        (c # d /\ calls[c].reply # Nil /\ calls[d].reply # Nil)
           => calls[c].reply.seq # calls[d].reply.seq
  /\ \A q \in Queues :
        /\ \A a, b \in 1..Len(popped[q]) :
              a # b => popped[q][a].seq # popped[q][b].seq
        /\ \A j \in 1..Len(list[q]) : list[q][j].seq \notin PoppedSeqs(q)

\* two dequeue calls in flight at the same time each returned a message
C1_Witness ==
  \E c, d \in Slots :
     /\ c # d /\ GotMessage(c) /\ GotMessage(d)
     /\ calls[c].reply.seq # calls[d].reply.seq
     /\ {calls[c].reply.seq, calls[d].reply.seq} \subseteq delivered

\* C2: FIFO order.  On every queue BRPOP removes the elements in the order
\* their LPUSH completed at the store, and an element still in the list was
\* appended after every element already removed.
C2_Fifo ==
  \A q \in Queues :
     /\ \A a, b \in 1..Len(popped[q]) :
           a < b => popped[q][a].seq < popped[q][b].seq
     /\ \A a \in 1..Len(popped[q]), j \in 1..Len(list[q]) :
           popped[q][a].seq < list[q][j].seq

\* A, B, C were enqueued one after the other and three dequeues removed
\* A, B, C in that order; the last two of them returned B and C
C2_Witness ==
  /\ [j \in 1..Len(popped["orders"]) |-> popped["orders"][j].p]
        = <<MsgA, MsgB, MsgC>>
  /\ [j \in 1..Len(popped["orders"]) |-> popped["orders"][j].by]
        = <<1, 2, 3>>
  /\ \E c, d \in Slots :
        /\ GotMessage(c) /\ calls[c].n = 5 /\ calls[c].res.body = MsgB
        /\ GotMessage(d) /\ calls[d].n = 6 /\ calls[d].res.body = MsgC

C4_WaitingDequeueReturnsMessage ==
  \A c \in WaitIds :
     (Waiting(c) /\ calls[c].q = "orders" /\ list["orders"] # <<>>)
        ~> GotMessage(c)

\* C5: every dequeue with a timeout of 0..60000 ms on a queue that stays
\* empty returns the "no message" result.
C5_EmptyDequeueEnds ==
  \A c \in CallIds :
     (Waiting(c) /\ calls[c].timeoutMs \in 0..MaxTimeoutMs) ~> GotNothing(c)

\* C6: two dequeues race for the only message of a queue: one returns it and
\* the other ends with "no message".
C6_OneWinnerOneTimeout ==
  (started = RaceCalls) ~>
     /\ \A c \in Slots : ~Active(c)
     /\ Cardinality(delivered) = 1 /\ redelivered = {}
     /\ \E c \in Slots : GotNothing(c)

\* a bulk enqueue of which the store executed some commands, not yet all
PartlyApplied(c) ==
  /\ calls[c].op = "bulkEnqueue" /\ calls[c].pc = "pipeline"
  /\ calls[c].applied > 0
\* call d reads or removes elements of the list of queue q
Observes(d, q) ==
  \/ \E n \in Counts : PeekMessagesLrange(d, q, n)
  \/ PeekMessagesLlen(d) /\ calls[d].q = q
  \/ BrpopExec(d) /\ calls[d].q = q
  \/ PurgeQueueLlen(d, q)
  \/ PurgeQueueDel(d) /\ calls[d].q = q
  \/ GetQueueInfoLlen(d, q)

\* C7: bulk enqueue is atomic towards other calls.  Between the first LPUSH
\* of a batch and its INCRBY no peek, dequeue, info or purge of another call
\* reads or changes the list.
C7_BulkAtomic ==
  [][\A c \in Slots :
        PartlyApplied(c) =>
           ~ \E d \in Slots \ {c} : Observes(d, calls[c].q)]_vars

\* C8: bulk enqueue is all-or-nothing.  A bulk enqueue that met a store
\* failure appended nothing and counted nothing; any other appended all its
\* messages and counted them.
C8_AllOrNothing ==
  \A c \in Slots :
     (calls[c].op = "bulkEnqueue" /\ Returned(c)) =>
        IF calls[c].failed
          THEN calls[c].applied = 0 /\ ~calls[c].counted
          ELSE calls[c].applied = Len(calls[c].arg) /\ calls[c].counted

\* the elements call number n appended: those in the list of q, those popped
InList(q, n) == {j \in 1..Len(list[q]) : list[q][j].by = n}
InPopped(q, n) == {j \in 1..Len(popped[q]) : popped[q][j].by = n}
Held ==
  UNION {{list[q][j] : j \in 1..Len(list[q])} : q \in Queues} \cup Replies

C10_DeleteAtomic ==
  [][\A c \in Slots :
        (/\ calls[c].op = "deleteQueue" /\ Active(c)
         /\ calls[c].deleted # {})
           => \A d \in Slots \ {c} : calls'[d] = calls[d]]_vars

\* no call is in flight
Quiet == \A c \in Slots : ~Active(c)

\* C11: once all operations on a queue have completed, totalEnqueued minus
\* totalDequeued equals the depth of its list.
C11_CountersMatchDepth ==
  Quiet =>
     \A q \in Queues : GET(enqueued[q]) - GET(dequeued[q]) = LLEN(list[q])

\* C12: the counters never decrease.  A step after which totalEnqueued or
\* totalDequeued of a queue is lower than before is a step of a deleteQueue
\* call on that queue.
C12_CountersMonotone ==
  [][\A q \in Queues :
        (\/ GET(enqueued'[q]) < GET(enqueued[q])
         \/ GET(dequeued'[q]) < GET(dequeued[q]))
           => \E c \in Slots :
                 /\ calls[c].op = "deleteQueue" /\ calls[c].q = q
                 /\ calls'[c] # calls[c]]_vars

\* an enqueue was counted, and a deleteQueue that returned has then reset
\* the counter
C12_Witness ==
  /\ enqueued["orders"] = NoKey
  /\ \E c, e \in Slots :
        /\ calls[c].op = "deleteQueue" /\ Returned(c)
        /\ calls[c].res.kind = "ok"
        /\ calls[e].op \in {"enqueue", "enqueueMessage"} /\ Returned(e)

\* the amount by which a step raises totalEnqueued / totalDequeued of q
RaisedEnqueued(q) == GET(enqueued'[q]) - GET(enqueued[q])
RaisedDequeued(q) == GET(dequeued'[q]) - GET(dequeued[q])
\* the step in which call c returns
Returns(c) == Active(c) /\ calls'[c].pc = "done"
Succeeds(c) == Returns(c) /\ calls'[c].res.kind = "ok"

OldestFirst(q) == [j \in 1..Len(list[q]) |-> JSONparse(Reverse(list[q])[j].str)]

\* C14: a peek returns exactly the min(count, 100, depth) oldest messages,
\* oldest first, and the full depth, for every requested count.
C14_PeekOldest ==
  \A c \in Slots :
     (calls[c].op = "peekMessages" /\ Returned(c)) =>
        LET q == calls[c].q
            want == Min(Min(calls[c].count, MaxPeekCount), LLEN(list[q]))
        IN /\ calls[c].res.count = want
           /\ calls[c].res.messages = SubSeq(OldestFirst(q), 1, want)
           /\ calls[c].res.totalDepth = LLEN(list[q])
           /\ calls[c].res.count <= MaxPeekCount

\* a step of a peekMessages call: its first, or a later one
PeekStep(c) ==
  \/ calls'[c].op = "peekMessages" /\ calls'[c].n = started + 1
                                   /\ started' = started + 1
  \/ calls[c].op = "peekMessages" /\ Active(c) /\ calls'[c] # calls[c]

\* C15: peek is read-only.  No step of a peek changes the list, the metadata
\* or a counter of any queue; no message it returns carries a dequeuedAt; and
\* peeks of the same queue and count, with no change of the queue between
\* them, return the same.
C15_PeekReadOnly ==
  [][/\ (\E c \in Slots : PeekStep(c))
           => UNCHANGED <<list, metadata, enqueued, dequeued>>
     /\ \A c \in Slots :
           (calls'[c].op = "peekMessages" /\ calls'[c].pc = "done") =>
              /\ \A j \in 1..Len(calls'[c].res.messages) :
                    "dequeuedAt" \notin DOMAIN calls'[c].res.messages[j]
              /\ \A d \in Slots :
                    (/\ calls'[d].op = "peekMessages" /\ calls'[d].pc = "done"
                     /\ calls'[d].q = calls'[c].q
                     /\ calls'[d].count = calls'[c].count)
                       => calls'[d].res = calls'[c].res]_vars

\* two peeks with count 2 of a queue that holds A and B each returned A, B,
\* and the queue still holds both
C15_Witness ==
  \E c, d \in Slots :
     /\ c # d
     /\ calls[c].op = "peekMessages" /\ Returned(c) /\ calls[c].count = 2
     /\ calls[d].op = "peekMessages" /\ Returned(d) /\ calls[d].count = 2
     /\ calls[c].res.count = 2
     /\ [j \in 1..2 |-> calls[c].res.messages[j].payload] = <<MsgA, MsgB>>
     /\ calls[d].res = calls[c].res
     /\ LLEN(list["orders"]) = 2 /\ enqueued["orders"] = 2

\* the next store command of a call other than a dequeue
NextCommand(c) ==
  \/ ApiEnqueueIncr(c)
  \/ EnqueueMessageSet(c) \/ EnqueueMessageLpush(c) \/ EnqueueMessageIncr(c)
  \/ BulkEnqueueLpush(c) \/ BulkEnqueueIncrby(c)
  \/ PeekMessagesLlen(c)
  \/ PurgeQueueDel(c)
  \/ CreateQueueSet(c)
  \/ GetQueueInfoExists(c) \/ GetQueueInfoLindexOldest(c)
  \/ GetQueueInfoLindexNewest(c) \/ GetQueueInfoGetEnqueued(c)
  \/ GetQueueInfoGetDequeued(c)
  \/ DeleteQueueExistsMetadata(c) \/ DeleteQueueExistsList(c)
  \/ DeleteQueueDelList(c) \/ DeleteQueueDelMetadata(c)
  \/ DeleteQueueDelEnqueued(c) \/ DeleteQueueDelDequeued(c)
  \/ GetQueueMetricsLindex(c)
  \/ ListQueuesLlen(c) \/ ListQueuesGet(c) \/ ListQueuesLindex(c)

\* C16: no operation other than dequeue waits.  The next store command of
\* every such call in flight can be executed at once, whatever the list
\* holds and whichever dequeues are blocked; and a peek of a queue to which
\* nothing was ever appended returns the empty list with depth 0.
C16_OnlyDequeueWaits ==
  \A c \in Slots :
     /\ (Active(c) /\ ~Dequeue(c)) => ENABLED NextCommand(c)
     /\ (calls[c].op = "peekMessages" /\ Returned(c) /\ nextSeq = 0) =>
           /\ calls[c].res.kind = "ok"
           /\ calls[c].res.messages = <<>>
           /\ calls[c].res.totalDepth = 0

\* while a dequeue is blocked on the empty queue, a peek that started after
\* it has returned the empty list
C16_Witness ==
  \E c, d \in Slots :
     /\ Dequeue(c) /\ calls[c].pc = "blocked"
     /\ calls[d].op = "peekMessages" /\ Returned(d)
     /\ calls[d].n > calls[c].n
     /\ calls[d].res.messages = <<>> /\ calls[d].res.totalDepth = 0

\* the pattern ^[A-Za-z0-9_-]{1,64}$; a name that is not there has no match
MatchesPattern(n) ==
  /\ n # NoName
  /\ Len(Chars(n)) \in 1..64
  /\ \A j \in 1..Len(Chars(n)) :
        Chars(n)[j] \in Lower \cup Upper \cup Digits \cup {"_", "-"}

NoKeyOf(n) ==
  /\ list[n] = <<>> /\ waiters[n] = <<>>
  /\ metadata[n] = Nil /\ enqueued[n] = NoKey /\ dequeued[n] = NoKey

\* the name a call was made with
NameOf(c) ==
  IF "name" \in DOMAIN calls[c].res THEN calls[c].res.name ELSE calls[c].q

InvalidNameError(c) ==
  /\ Returned(c) /\ calls[c].res.kind = "error"
  /\ calls[c].res.status = 400
  /\ calls[c].res.message = "Invalid queue name"

\* C17: a name that does not match ^[A-Za-z0-9_-]{1,64}$ is rejected by every
\* operation with the 400 error "Invalid queue name", no handler gets past its
\* validation with it, and the store never holds a key of it; a name that
\* matches is never rejected for its name.
C17_NameValidation ==
  /\ \A n \in Names : ~MatchesPattern(n) => NoKeyOf(n)
  /\ \A c \in Slots :
        (calls[c].op \in NamedOps /\ (Active(c) \/ Returned(c))) =>
           (InvalidNameError(c) <=> ~MatchesPattern(NameOf(c)))

\* the same for the names that are texts: the validation is the pattern
C17_TextNames ==
  /\ \A n \in Names :
        /\ validateQueueName(n) <=> MatchesPattern(n)
        /\ ~MatchesPattern(n) => NoKeyOf(n)
  /\ \A c \in Slots :
        (calls[c].op \in NamedOps /\ (Active(c) \/ Returned(c))
           /\ NameOf(c) # NoName) =>
           (InvalidNameError(c) <=> ~MatchesPattern(NameOf(c)))

\* the step is the start of the call in slot c
StartsCall(c) == started' = started + 1 /\ calls'[c].n = started'

\* C18: a dequeue with a timeout above 60000 ms ends in the step that starts
\* it with the 400 error "Timeout exceeds maximum (60s)": no BRPOP is written
\* to the blocking connection, and the lists, the counters and the waiting
\* pops stay as they are.  A dequeue with a timeout of exactly 60000 ms is
\* accepted: its BRPOP is written.
C18_TimeoutCeiling ==
  [][\A c \in CallIds :
       (StartsCall(c) /\ calls'[c].op \in DequeueOps) =>
          IF calls'[c].timeoutMs > 60000
            THEN /\ calls'[c].pc = "done"
                 /\ calls'[c].res.kind = "error"
                 /\ calls'[c].res.status = 400
                 /\ calls'[c].res.message = "Timeout exceeds maximum (60s)"
                 /\ calls'[c].reply = Nil
                 /\ UNCHANGED <<list, metadata, enqueued, dequeued, waiters,
                                bq, popped>>
            ELSE /\ calls'[c].pc = "brpop"
                 /\ bq'[calls'[c].inst] = Append(bq[calls'[c].inst], c)]_vars

\* a dequeue with 60001 ms was rejected while one with 60000 ms is blocked on
\* the empty queue, and nothing was counted
C18_Witness ==
  /\ \E c, d \in Slots :
        /\ Dequeue(c) /\ Returned(c) /\ calls[c].timeoutMs = 60001
        /\ calls[c].res.kind = "error"
        /\ Dequeue(d) /\ calls[d].timeoutMs = 60000
        /\ calls[d].pc = "blocked"
  /\ list["orders"] = <<>> /\ dequeued["orders"] = NoKey

\* the step is the DEL of the purge in slot c
PurgeDelStep(c) ==
  calls[c].op = "purgeQueue" /\ calls[c].pc = "del" /\ calls'[c].pc = "done"

\* the step is the INCR of the enqueue in slot c
EnqueueIncrStep(c) ==
  calls[c].op = "enqueueMessage" /\ calls[c].pc = "incr"
    /\ calls'[c].pc = "done"

\* C19: purgeQueue empties the list of its queue in one store step and
\* changes nothing else: the metadata record and both counters stay as they
\* are, in the step that reads the depth as in the step that deletes.  An
\* enqueue that starts when the metadata record exists writes no record and
\* keeps the one there is, and its INCR raises the enqueued counter by one
\* from the value the purge left.
C19_PurgeKeepsMetadataAndCounters ==
  [][\A c \in CallIds :
          /\ (StartsCall(c) /\ calls'[c].op = "purgeQueue") =>
                UNCHANGED <<list, metadata, enqueued, dequeued>>
          /\ PurgeDelStep(c) =>
                /\ list'[calls[c].q] = <<>>
                /\ \A q \in Names \ {calls[c].q} : list'[q] = list[q]
                /\ UNCHANGED <<metadata, enqueued, dequeued>>
          /\ (EnqueueIncrStep(c) /\ enqueued[calls[c].q] # NoKey) =>
                enqueued'[calls[c].q] = enqueued[calls[c].q] + 1
          /\ (StartsCall(c) /\ calls'[c].op = "enqueueMessage"
                /\ metadata[calls'[c].q] # Nil) =>
                calls'[c].metadataExists /\ calls'[c].pc = "lpush"
          /\ (calls[c].op = "enqueueMessage" /\ Active(c)
                /\ calls[c].metadataExists /\ calls'[c] # calls[c]) =>
                UNCHANGED metadata
    ]_vars

\* a purge removed the one message of the queue and an enqueue that started
\* after the purge has returned: the enqueued counter reads 2, the list holds
\* the new message and the record is still the one written at time 0
C19_Witness ==
  /\ \E c, d \in Slots :
        /\ calls[c].op = "purgeQueue" /\ Returned(c) /\ calls[c].removed = 1
        /\ calls[d].op = "enqueueMessage" /\ Returned(d)
        /\ calls[d].n > calls[c].n
  /\ enqueued["orders"] = 2
  /\ Len(list["orders"]) = 1
  /\ metadata["orders"] = JSONstringify(Metadata("orders", 0))
  /\ clock = 1

\* C20: the purgedMessages of a purge that returned is the number of
\* messages its DEL removed from the list.
C20_PurgedCountIsRemoved ==
  \A c \in Slots :
     (calls[c].op = "purgeQueue" /\ Returned(c)) =>
        calls[c].res.purgedMessages = calls[c].removed

\* the step is the SET of the create in slot c
CreateSetStep(c) ==
  calls[c].op = "createQueue" /\ calls[c].pc = "set" /\ calls'[c].pc = "done"

CreatingOnFirstUse(d, q) ==
  /\ calls[d].op = "enqueueMessage" /\ calls[d].q = q
  /\ ~calls[d].metadataExists
  /\ calls[d].pc \in {"lpush", "incr"}

\* C22: a createQueue whose store call comes while an enqueue that creates the
\* same queue on first use is in flight does not fail, and neither does the
\* enqueue.
C22_RaceFailsNeither ==
  [][\A c, d \in CallIds :
       /\ (StartsCall(c) /\ calls'[c].op = "createQueue"
             /\ CreatingOnFirstUse(d, calls'[c].q)) =>
             calls'[c].res.kind # "error"
       /\ (calls[d].op = "enqueueMessage" /\ Active(d)
             /\ calls'[d].pc = "done") =>
             calls'[d].res.kind = "ok"]_vars

\* C23: a metadata record that exists is not written again: no step of an
\* enqueue or of a create changes it (no queue is deleted here).
C23_MetadataWrittenOnce ==
  [][\A q \in Names : metadata[q] # Nil => metadata'[q] = metadata[q]]_vars

\* C24: once an enqueue to a queue has succeeded (its counter is there; no
\* queue is deleted here), the queue has a metadata record with its name, an
\* info call made afterwards finds it, and a list call made afterwards names
\* it, whatever was dequeued meanwhile.  Calls are made one after the other,
\* so a call that has returned was made after every completed enqueue.
C24_ImplicitCreate ==
  \A q \in Queues :
     enqueued[q] # NoKey =>
        /\ metadata[q] # Nil
        /\ JSONparse(metadata[q]).name = q
        /\ \A c \in Slots :
              /\ (calls[c].op = "getQueueInfo" /\ calls[c].q = q
                    /\ Returned(c)) => calls[c].res.kind = "ok"
              /\ (calls[c].op = "listQueues" /\ Returned(c)) =>
                    \E j \in 1..Len(calls[c].res.queues) :
                       calls[c].res.queues[j].name = q

\* C25: an info call that has returned failed with "Queue not found" exactly
\* if the queue has neither a list nor a metadata record, and otherwise
\* returned the depth and both totals.  Calls are made one after the other,
\* so the store is as the info call saw it.
C25_InfoNotFound ==
  \A c \in Slots :
     (calls[c].op = "getQueueInfo" /\ Returned(c)) =>
        IF ~EXISTS(list[calls[c].q]) /\ metadata[calls[c].q] = Nil
          THEN /\ calls[c].res.kind = "error"
               /\ calls[c].res.message = "Queue not found"
          ELSE /\ calls[c].res.kind = "ok"
               /\ calls[c].res.depth = LLEN(list[calls[c].q])
               /\ calls[c].res.totalEnqueued = GET(enqueued[calls[c].q])
               /\ calls[c].res.totalDequeued = GET(dequeued[calls[c].q])

\* the call in slot c returns in this step
ReturnStep(c) == Active(c) /\ calls'[c].pc = "done"

Absent(q) ==
  /\ list[q] = <<>> /\ metadata[q] = Nil
  /\ enqueued[q] = NoKey /\ dequeued[q] = NoKey

QueuesThere == {q \in Names : list[q] # <<>> \/ metadata[q] # Nil}

\* C27: a list call that has returned succeeded and names exactly the queues
\* that have a list or a metadata record, each once and with its depth, and
\* nothing else.  Calls are made one after the other, so the store is as the
\* list call saw it.
C27_ListExactlyTheQueues ==
  \A c \in Slots :
     (calls[c].op = "listQueues" /\ Returned(c)) =>
        /\ calls[c].res.kind = "ok"
        /\ {calls[c].res.queues[j].name :
              j \in 1..Len(calls[c].res.queues)} = QueuesThere
        /\ Len(calls[c].res.queues) = Cardinality(QueuesThere)
        /\ calls[c].res.total = Cardinality(QueuesThere)
        /\ \A j \in 1..Len(calls[c].res.queues) :
              calls[c].res.queues[j].depth =
                 Len(list[calls[c].res.queues[j].name])

\* C28: a call of which a store command failed ends with the 500 error, and
\* a dequeue that ended with "no message" had no failing command: its BRPOP
\* waited and was answered nil.
C28_FailureIsAnError ==
  \A c \in Slots :
     Returned(c) =>
        /\ calls[c].failed =>
              calls[c].res.kind = "error" /\ calls[c].res.status = 500
        /\ GotNothing(c) =>
              ~calls[c].failed /\ calls[c].waited /\ calls[c].reply = Nil

\* the same without bulkEnqueue
C28_ExceptBulk ==
  \A c \in Slots :
     (Returned(c) /\ calls[c].op # "bulkEnqueue") =>
        /\ calls[c].failed =>
              calls[c].res.kind = "error" /\ calls[c].res.status = 500
        /\ GotNothing(c) =>
              ~calls[c].failed /\ calls[c].waited /\ calls[c].reply = Nil

\* what the list of q holds and what was popped from it, as (call, index)
Appended(q) ==
  [j \in 1..(Len(list[q]) + Len(popped[q])) |->
     IF j <= Len(list[q])
       THEN <<list[q][j].by, list[q][j].idx>>
       ELSE <<popped[q][j - Len(list[q])].by,
              popped[q][j - Len(list[q])].idx>>]

\* C29: the message of one enqueue call is appended at most once: no two
\* elements, in the list or popped from it, are of the same call.
C29_AppendedOnce ==
  \A q \in Queues :
     \A a, b \in 1..Len(Appended(q)) :
        a # b => Appended(q)[a] # Appended(q)[b]

\* the elements appended so far, by their numbers
ListSeqs(q) == {list[q][j].seq : j \in 1..Len(list[q])}

\* C30: every appended message is in its list or was popped from it (nothing
\* is purged or deleted here), and every popped message was returned to a
\* dequeue caller or is the reply a dequeue call in flight is about to
\* return.
C30_NoMessageLoss ==
  /\ UNION {ListSeqs(q) \cup PoppedSeqs(q) : q \in Queues} = 1..nextSeq
  /\ \A q \in Queues :
        \A j \in 1..Len(popped[q]) :
           \/ popped[q][j].seq \in delivered
           \/ \E c \in Slots :
                 /\ Dequeue(c) /\ Active(c)
                 /\ calls[c].reply # Nil
                 /\ calls[c].reply.seq = popped[q][j].seq

TypeOK == \A q \in Queues : Len(list[q]) <= nextSeq
\* C31: the answers of the two dequeue endpoints.  A dequeue that passed
\* validation answers 200 with a body exactly when its BRPOP returned an
\* element, and 204 without a body when the BRPOP ended with nil.
C31_DequeueStatus ==
  \A c \in Slots :
     (Dequeue(c) /\ Returned(c) /\ calls[c].res.kind # "error") =>
        IF calls[c].reply # Nil
          THEN calls[c].res.kind = "ok" /\ calls[c].res.status = 200
          ELSE calls[c].res.kind = "null" /\ calls[c].res.status = 204
\* the part of it that holds: a body is sent only with a message, the
\* simple API answers 204 without one, the internal API 200 without one
C31_AnswersOfTheCode ==
  \A c \in Slots :
     (Dequeue(c) /\ Returned(c) /\ calls[c].res.kind # "error") =>
        /\ calls[c].res.kind = "ok" <=> calls[c].reply # Nil
        /\ calls[c].res.kind = "ok" => calls[c].res.status = 200
        /\ calls[c].res.kind = "null" =>
              calls[c].res.status =
                 IF calls[c].op = "dequeue" THEN 204 ELSE 200

\* C32: dequeues on different queues do not delay each other.  A dequeue
\* whose BRPOP is written while its queue holds a message is not behind a
\* BRPOP of its instance that is blocked on another queue: the store can
\* execute it at once.
C32_NotDelayedByOtherQueue ==
  \A c \in Slots :
     (Dequeue(c) /\ calls[c].pc = "brpop" /\ list[calls[c].q] # <<>>) =>
        ~\E d \in Slots : /\ calls[d].pc = "blocked"
                          /\ calls[d].inst = calls[c].inst
                          /\ calls[d].q # calls[c].q

\* C33: the dequeued counter never runs ahead of the enqueued counter.  In
\* every state of every interleaving of enqueues and dequeues, without a
\* delete, totalDequeued <= totalEnqueued on every queue, a missing counter
\* read as 0.
C33_DequeuedNotAhead ==
  \A q \in Queues : GET(dequeued[q]) <= GET(enqueued[q])

\* C34: the envelope invariant.  Every element of every list is the text
\* of an envelope {id, payload, enqueuedAt}; every message a dequeueMessage
\* call returned carries id, enqueuedAt and dequeuedAt, and every message a
\* peek returned carries id and enqueuedAt and no dequeuedAt; also when
\* both APIs are used on one queue.
EnvelopeFields == {"id", "payload", "enqueuedAt"}
C34_StoredEnvelopes ==
  /\ \A q \in Queues : \A j \in 1..Len(list[q]) :
        DOMAIN JSONparse(list[q][j].str) = EnvelopeFields
  /\ \A c \in Slots :
        (calls[c].op = "dequeueMessage" /\ GotMessage(c)) =>
           DOMAIN calls[c].res.body = EnvelopeFields \cup {"dequeuedAt"}
  /\ \A c \in Slots :
        (calls[c].op = "peekMessages" /\ Returned(c)
           /\ calls[c].res.kind = "ok") =>
           \A j \in 1..Len(calls[c].res.messages) :
              DOMAIN calls[c].res.messages[j] = EnvelopeFields
\* what holds of it: the elements appended by the internal API are such
\* envelopes, and a dequeue of the internal API adds dequeuedAt, a peek and
\* a dequeue of the simple API add nothing
C34_InternalEnvelopes ==
  /\ \A q \in Queues : \A j \in 1..Len(list[q]) :
        list[q][j].id # 0 =>
           DOMAIN JSONparse(list[q][j].str) = EnvelopeFields
  /\ \A c \in Slots :
        GotMessage(c) =>
           DOMAIN calls[c].res.body =
              DOMAIN JSONparse(calls[c].reply.str) \cup
                 (IF calls[c].op = "dequeueMessage"
                    THEN {"dequeuedAt"} ELSE {})

\* C35: a bulk enqueue reports success only for what the store applied.  A
\* bulkEnqueue call that answered success with enqueuedCount = N and N ids
\* had its N LPUSH and its INCRBY executed; one of which a command failed
\* answered with an error.
C35_BulkSuccessIsApplied ==
  \A c \in Slots :
     (calls[c].op = "bulkEnqueue" /\ Returned(c)) =>
        /\ calls[c].res.kind = "ok" =>
              /\ calls[c].applied = calls[c].res.enqueuedCount
              /\ Len(calls[c].res.messageIds) = calls[c].applied
              /\ calls[c].counted
        /\ calls[c].failed => calls[c].res.kind = "error"

\* C36: a peek response is a consistent snapshot.  In every response of a
\* peek, count <= totalDepth and count = min(requested count, 100,
\* totalDepth), whatever other calls did between the peek's two reads.
C36_PeekSnapshot ==
  \A c \in Slots :
     (calls[c].op = "peekMessages" /\ Returned(c)
        /\ calls[c].res.kind = "ok") =>
        /\ calls[c].res.count <= calls[c].res.totalDepth
        /\ calls[c].res.count =
              Min(Min(calls[c].count, MaxPeekCount), calls[c].res.totalDepth)

\* C37: of the createQueue calls for one name that does not exist yet, one
\* succeeds and the others fail: no two createQueue calls on the same name
\* both answer success (no queue is deleted here).
SuccessfulCreate(c, q) ==
  /\ calls[c].op = "createQueue" /\ calls[c].q = q
  /\ Returned(c) /\ calls[c].res.kind = "ok"
C37_OneCreateSucceeds ==
  \A q \in Queues : \A c, d \in Slots :
     (SuccessfulCreate(c, q) /\ SuccessfulCreate(d, q)) => c = d

\* the keys of a queue, and what the store holds under them
StoreOf(q) == <<list[q], metadata[q], enqueued[q], dequeued[q]>>
\* no key of a valid name is a key of another valid name; "a" is the valid
\* name of which the invalid name "a:metadata" would take the metadata key
KeysDisjoint ==
  \A a, b \in {n \in Names \cup {"a"} : validateQueueName(n)} :
     a # b => \A ka, kb \in KeyKinds : KeyText(a, ka) # KeyText(b, kb)

\* C38: queue isolation.  The four keys of a valid name are keys of no
\* other valid name, and a step that changes the list, the metadata or a
\* counter of a queue is a step of calls on that queue only.
C38_QueueIsolation ==
  [][/\ KeysDisjoint
     /\ \A b \in Names :
          StoreOf(b)' # StoreOf(b) =>
             /\ \E c \in Slots : calls'[c] # calls[c]
             /\ \A c \in Slots :
                   calls'[c] # calls[c] => calls'[c].q = b]_vars
\* C38 witness: a deleteQueue on "orders" has removed keys and returned
\* while "jobs" holds a message, its metadata record and its counter
C38_Witness ==
  \E c \in Slots :
     /\ calls[c].op = "deleteQueue" /\ calls[c].q = "orders"
     /\ Returned(c) /\ calls[c].res.kind = "ok"
     /\ calls[c].deleted = {"list", "metadata", "enqueued", "dequeued"}
     /\ list["jobs"] # <<>> /\ metadata["jobs"] # Nil
     /\ enqueued["jobs"] = 1

\* the sum of the depths of the queues of S
RECURSIVE SumOfDepths(_)
SumOfDepths(S) ==
  IF S = {} THEN 0
  ELSE LET q == CHOOSE x \in S : TRUE
       IN LLEN(list[q]) + SumOfDepths(S \ {q})

\* C39: system statistics.  A getSystemStats call that has returned
\* succeeded, with total the number of queues that have a list or a
\* metadata record, active the number of those with messages, empty the
\* rest, and totalDepth the sum of their depths.  Calls are made one after
\* the other, so the store is as the call saw it.
C39_SystemStats ==
  \A c \in Slots :
     (calls[c].op = "getSystemStats" /\ Returned(c)) =>
        /\ calls[c].res.kind = "ok"
        /\ calls[c].res.queues.total = Cardinality(QueuesThere)
        /\ calls[c].res.queues.active =
              Cardinality({q \in QueuesThere : LLEN(list[q]) > 0})
        /\ calls[c].res.queues.empty =
              calls[c].res.queues.total - calls[c].res.queues.active
        /\ calls[c].res.messages.totalDepth = SumOfDepths(QueuesThere)
\* what holds of it: while no metadata record exists the call succeeds and
\* counts the lists; with a metadata record it ends with the 500 error
C39_WithoutMetadata ==
  \A c \in Slots :
     (calls[c].op = "getSystemStats" /\ Returned(c)) =>
        IF \E q \in Names : metadata[q] # Nil
          THEN calls[c].res.kind = "error" /\ calls[c].res.status = 500
          ELSE /\ calls[c].res.kind = "ok"
               /\ calls[c].res.queues.total = Cardinality(QueuesThere)
               /\ calls[c].res.queues.active = Cardinality(QueuesThere)
               /\ calls[c].res.queues.empty = 0
               /\ calls[c].res.messages.totalDepth = SumOfDepths(QueuesThere)

====
